---- MODULE Spec2Model ----
(***************************************************************************)
(* TradeLens backend: the trade listing (keyset pagination with filters),  *)
(* the ownership checks of the trade / image / upload handlers, and the    *)
(* CSV import with its two levels of duplicate suppression.                *)
(*                                                                         *)
(* Conventions.  A Python Optional / SQL NULL is a sequence of length at   *)
(* most one: None is <<>>, a present value v is <<v>>.  Instants are       *)
(* integers, sort_at strings are integers ordered like the timestamps they *)
(* denote, store-generated ids are integers in order of generation.        *)
(*                                                                         *)
(* app/services/db.py as given defines neither trade_exists_for_user nor   *)
(* ensure_account_belongs_to_user, and its insert_trade has no account_id  *)
(* parameter, although app/api/routes/trades.py imports the two functions  *)
(* and passes account_id.  The two functions are modelled from the         *)
(* specification text; insert_trade is modelled as trades.py calls it.     *)
(***************************************************************************)
EXTENDS Integers, Sequences, FiniteSets, TLC

VARIABLES
  trades,    \* rows of the trades table
  images,    \* rows of the images table
  analyses,  \* rows of the trade_analysis table
  objects,   \* keys of the objects in the bucket
  nextId,    \* the next identifier the store generates
  clock,     \* the current instant
  walk,      \* a client following the nextCursor chain of GET /trades
  resp,      \* the latest request handled and its response
  imp,       \* the CSV import in progress
  reqs       \* the requests in progress whose store calls interleave

vars == <<trades, images, analyses, objects, nextId, clock, walk, resp, imp, reqs>>

(***************************************************************************)
(* Bounds of the model.                                                    *)
(***************************************************************************)
NTrades == 3
NFilterTrades == 1
MaxLimit == 2
MaxIds == 2
MaxObjects == 1
MaxRows == 2
MaxImports == 2
MaxTicks == 1

\* the sort_at values the store gives to rows
SortAts == 1..2

(***************************************************************************)
(* Optional values.                                                        *)
(***************************************************************************)
None == <<>>
Some(x) == <<x>>
IsSome(o) == o # <<>>
Val(o) == o[1]

Users == {"u1", "u2"}
Outcomes == {"win", "loss"}
Sessions == {"London", "NY", "Break", "Asia"}

Min(a, b) == IF a < b THEN a ELSE b

SeqToSet(s) == {s[i] : i \in DOMAIN s}

\* str.upper() on the symbols the model uses
Upper(s) ==
  CASE s = "es" -> "ES"
    [] s = " es " -> " ES "
    [] OTHER -> s

\* str.strip() on the symbols the model uses
Strip(s) ==
  CASE s = " es " -> "es"
    [] OTHER -> s

(***************************************************************************)
(* Rows of the trades table.                                               *)
(***************************************************************************)
BlankTrade ==
  [id |-> 0, user_id |-> "u1", sort_at |-> None, note |-> "",
   taken_at |-> None, exit_at |-> None, outcome |-> None,
   strategies |-> None, session |-> None, mistakes |-> None, side |-> None,
   entry_price |-> None, exit_price |-> None, contracts |-> None,
   pnl |-> None, symbol |-> None, account_id |-> None]

TradeIds == {t.id : t \in trades}
TradeById(id) == CHOOSE t \in trades : t.id = id

(***************************************************************************)
(* Cursor codec.  json.dumps of the payload is the sequence of its         *)
(* key/value pairs; the base64url text of it is a tagged wrapper.          *)
(***************************************************************************)
JsonDumps(payload) == << <<"sort_at", payload.sort_at>>, <<"id", payload.id>> >>

\* dict.get on parsed JSON pairs: the last pair with the key wins
RECURSIVE JsonGet(_, _)
JsonGet(pairs, key) ==
  IF pairs = <<>> THEN None
  ELSE IF pairs[Len(pairs)][1] = key THEN Some(pairs[Len(pairs)][2])
  ELSE JsonGet(SubSeq(pairs, 1, Len(pairs) - 1), key)

\* Python truthiness of an optional string (0 stands for the empty string)
Truthy(o) == IsSome(o) /\ Val(o) # 0

_encode_cursor(sort_at_iso, trade_id) ==
  [b64 |-> JsonDumps([sort_at |-> sort_at_iso, id |-> trade_id])]

\* result: ok with the payload, or not ok (HTTP 400 invalid_cursor)
_decode_cursor(cursor) ==
  IF ~ ("b64" \in DOMAIN cursor) THEN [ok |-> FALSE, sort_at |-> 0, id |-> 0]
  ELSE LET payload == cursor.b64
           s == JsonGet(payload, "sort_at")
           i == JsonGet(payload, "id")
       IN IF ~Truthy(s) \/ ~Truthy(i)
          THEN [ok |-> FALSE, sort_at |-> 0, id |-> 0]
          ELSE [ok |-> TRUE, sort_at |-> Val(s), id |-> Val(i)]

(***************************************************************************)
(* The store query of fetch_trades_for_user.                               *)
(***************************************************************************)
\* mutant: the tiebreak on id ascending
Before_IdAscending(a, b) ==
  \/ ~IsSome(a.sort_at) /\ IsSome(b.sort_at)
  \/ /\ IsSome(a.sort_at) /\ IsSome(b.sort_at)
     /\ Val(a.sort_at) > Val(b.sort_at)
  \/ /\ a.sort_at = b.sort_at
     /\ a.id < b.id

\* ORDER BY sort_at DESC, id DESC (NULL sort_at first, as the store orders)
Before(a, b) ==
  \/ ~IsSome(a.sort_at) /\ IsSome(b.sort_at)
  \/ /\ IsSome(a.sort_at) /\ IsSome(b.sort_at)
     /\ Val(a.sort_at) > Val(b.sort_at)
  \/ /\ a.sort_at = b.sort_at
     /\ a.id > b.id

RECURSIVE OrderDesc(_)
OrderDesc(S) ==
  IF S = {} THEN <<>>
  ELSE LET r == CHOOSE x \in S : \A y \in S \ {x} : Before(x, y)
       IN <<r>> \o OrderDesc(S \ {r})

Take(s, n) == SubSeq(s, 1, Min(n, Len(s)))

NoFilters == [outcome |-> <<>>, session |-> <<>>, strategy |-> <<>>, symbol |-> <<>>]

\* mutant: the symbol filter values are not upper-cased
FilterPreds_NoUpper(filters) ==
  (IF filters.outcome # <<>>
     THEN << [op |-> "in", col |-> "outcome", vals |-> filters.outcome] >>
     ELSE <<>>)
  \o (IF filters.session # <<>>
        THEN << [op |-> "in", col |-> "session", vals |-> filters.session] >>
        ELSE <<>>)
  \o (IF filters.symbol # <<>>
        THEN << [op |-> "in", col |-> "symbol", vals |-> filters.symbol] >>
        ELSE <<>>)
  \o (IF filters.strategy # <<>>
        THEN << [op |-> "cs", col |-> "strategies", vals |-> filters.strategy] >>
        ELSE <<>>)

\* mutant: contains-any instead of contains-all
RowMatches_ContainsAny(row, p) ==
  /\ IsSome(row[p.col])
  /\ IF p.op = "in"
       THEN \E i \in DOMAIN p.vals : p.vals[i] = Val(row[p.col])
       ELSE \E i \in DOMAIN p.vals : p.vals[i] \in Val(row[p.col])

\* the in_ / contains predicates the filter dictionary adds to the query
FilterPreds(filters) ==
  (IF filters.outcome # <<>>
     THEN << [op |-> "in", col |-> "outcome", vals |-> filters.outcome] >>
     ELSE <<>>)
  \o (IF filters.session # <<>>
        THEN << [op |-> "in", col |-> "session", vals |-> filters.session] >>
        ELSE <<>>)
  \o (IF filters.symbol # <<>>
        THEN << [op |-> "in", col |-> "symbol",
                 vals |-> [i \in DOMAIN filters.symbol |-> Upper(filters.symbol[i])]] >>
        ELSE <<>>)
  \o (IF filters.strategy # <<>>
        THEN << [op |-> "cs", col |-> "strategies", vals |-> filters.strategy] >>
        ELSE <<>>)

\* a row against one predicate; a NULL column satisfies neither
RowMatches(row, p) ==
  /\ IsSome(row[p.col])
  /\ IF p.op = "in"
       THEN \E i \in DOMAIN p.vals : p.vals[i] = Val(row[p.col])
       ELSE \A i \in DOMAIN p.vals : p.vals[i] \in Val(row[p.col])

\* mutant: the keyset predicate without its tiebreak branch
KeysetAfter_NoTiebreak(row, after) ==
  IsSome(row.sort_at) /\ Val(row.sort_at) < after.sort_at

\* mutant: the row of the cursor itself passes the keyset predicate
KeysetAfter_Inclusive(row, after) ==
  /\ IsSome(row.sort_at)
  /\ \/ Val(row.sort_at) < after.sort_at
     \/ Val(row.sort_at) = after.sort_at /\ row.id <= after.id

\* or_(and(sort_at.lt.S), and(sort_at.eq.S, id.lt.I))
KeysetAfter(row, after) ==
  /\ IsSome(row.sort_at)
  /\ \/ Val(row.sort_at) < after.sort_at
     \/ Val(row.sort_at) = after.sort_at /\ row.id < after.id

\* the images of the fetched trades, oldest first
ImagesOf(tid) == OrderDesc({[id |-> 0 - im.id, sort_at |-> None, row |-> im] :
                            im \in {x \in images : x.trade_id = tid}})

ShapeTrade(r) ==
  LET imgs == ImagesOf(r.id)
  IN [id |-> r.id, note |-> r.note, taken_at |-> r.taken_at,
      sort_at |-> r.sort_at, outcome |-> r.outcome, strategies |-> r.strategies,
      session |-> r.session, symbol |-> r.symbol,
      images |-> IF imgs = <<>> THEN <<>> ELSE <<imgs[1].row.s3_key>>,
      image_count |-> Len(imgs)]

fetch_trades_for_user(user_id, limit, after, filters) ==
  LET preds == FilterPreds(filters)
      rows == {t \in trades :
                 /\ t.user_id = user_id
                 /\ \A k \in DOMAIN preds : RowMatches(t, preds[k])
                 /\ IsSome(after) => KeysetAfter(t, Val(after))}
      trade_rows == Take(OrderDesc(rows), limit)
  IN [k \in DOMAIN trade_rows |-> ShapeTrade(trade_rows[k])]

\* mutant: a cursor is issued for every non-empty page
NextCursor_AnyPage(items, limit) ==
  IF Len(items) > 0 /\ Truthy(items[Len(items)].sort_at)
    THEN Some(_encode_cursor(Val(items[Len(items)].sort_at), items[Len(items)].id))
    ELSE None

\* the next_cursor of list_trades
NextCursor(items, limit) ==
  IF Len(items) = limit /\ Truthy(items[Len(items)].sort_at)
    THEN Some(_encode_cursor(Val(items[Len(items)].sort_at), items[Len(items)].id))
    ELSE None

\* GET /trades : the response of list_trades
list_trades(user_id, limit, cursor, filters) ==
  LET after == IF IsSome(cursor) THEN _decode_cursor(Val(cursor))
               ELSE [ok |-> TRUE, sort_at |-> 0, id |-> 0]
  IN IF ~after.ok
     THEN [status |-> 400, items |-> <<>>, nextCursor |-> None]
     ELSE LET items == fetch_trades_for_user(
                         user_id, limit,
                         IF IsSome(cursor) THEN Some(after) ELSE None, filters)
          IN [status |-> 200, items |-> items,
              nextCursor |-> NextCursor(items, limit)]

(***************************************************************************)
(* A client walking the listing: the first request carries no cursor, each *)
(* later request the nextCursor of the response before it.                 *)
(***************************************************************************)
IdleWalk ==
  [status |-> "idle", user |-> "u1", limit |-> 1, filters |-> NoFilters,
   cursor |-> None, pages |-> <<>>, pre |-> {}, touched |-> {}]

\* no CSV import has run yet
NoImport ==
  [status |-> "idle", n |-> 0, user |-> "u1", account_id |-> None,
   rows |-> <<>>, i |-> 1, seen_keys |-> {}, inserted |-> 0, failed |-> 0,
   duplicates |-> 0, outcomes |-> <<>>, before |-> {}, prior |-> {},
   hist |-> {}]

WalkStart(U, L, F, C) ==
  /\ walk.status = "idle"
  /\ \E u \in U, l \in L, f \in F, c \in C :
       walk' = [status |-> "walking", user |-> u, limit |-> l, filters |-> f,
                cursor |-> c, pages |-> <<>>,
                pre |-> {t.id : t \in {x \in trades :
                           /\ x.user_id = u
                           /\ \A k \in DOMAIN FilterPreds(f) :
                                RowMatches(x, FilterPreds(f)[k])}},
                touched |-> {}]
  /\ UNCHANGED <<trades, images, analyses, objects, nextId, clock, resp, imp, reqs>>

\* one request of the walk and its response, with the ids the store held when
\* the request was served
ListPage ==
  /\ walk.status = "walking"
  /\ LET r == list_trades(walk.user, walk.limit, walk.cursor, walk.filters)
     IN walk' = [walk EXCEPT
                   !.pages = Append(@, [cursor |-> walk.cursor, items |-> r.items,
                                        nextCursor |-> r.nextCursor,
                                        stored |-> TradeIds]),
                   !.cursor = r.nextCursor,
                   !.status = IF IsSome(r.nextCursor) THEN "walking" ELSE "done"]
  /\ UNCHANGED <<trades, images, analyses, objects, nextId, clock, resp, imp, reqs>>

\* the walk's record of the rows a request changed or deleted while the walk
\* was under way (history only: no handler reads it)
Watched(after) ==
  IF walk.status = "walking"
    THEN [walk EXCEPT !.touched = @ \cup {t.id : t \in trades \ after}]
    ELSE walk

(***************************************************************************)
(* Authentication.  A bearer token carries a subject and is valid or not   *)
(* (bad signature, wrong issuer, expired, or no Authorization header); the *)
(* x-user-id header is whatever the client chose to send.                  *)
(***************************************************************************)
Tokens == [sub : Users, valid : BOOLEAN]

\* the verified subject, or None for the 401 rejection
verify_supabase_token(authorization) ==
  IF authorization.valid THEN Some(authorization.sub) ELSE None

\* the x-user-id header itself, or None for the 401 rejection
get_current_user_id(x_user_id) ==
  IF ~IsSome(x_user_id) THEN None ELSE x_user_id

Creds(tok, hdr) == [token |-> tok, x_user_id |-> hdr]

\* the request handled, the owner of the record it addressed (None when no
\* such record exists), the user id the handler acted under, and the response
Response(op, creds, acting, owner, status, detail, data) ==
  [op |-> op, creds |-> creds, acting |-> acting, owner |-> owner,
   status |-> status, detail |-> detail, data |-> data]

NoResp == Response("none", Creds([sub |-> "u1", valid |-> FALSE], None),
                   None, None, 0, "", None)

Unauthorized(op, creds) == Response(op, creds, None, None, 401, "unauthorized", None)

\* an exception no handler catches: the framework answers 500
Unhandled(op, creds, acting, owner) ==
  Response(op, creds, acting, owner, 500, "Internal Server Error", None)

(***************************************************************************)
(* Time and sessions.  An instant is a number of seconds since             *)
(* 2025-01-01T00:00:00Z; a datetime is an instant with or without tzinfo.  *)
(***************************************************************************)
Hour == 60 * 60
Day == 24 * Hour

\* America/Los_Angeles in 2025: UTC-7 from 9 March 10:00Z to 2 November 09:00Z
LaUtcOffset(t) ==
  IF t >= 67 * Day + 10 * Hour /\ t < 305 * Day + 9 * Hour
    THEN 0 - 7 * Hour ELSE 0 - 8 * Hour

\* mutant: the minutes are ignored, so that NY begins at 06:00
infer_session_from_entry_HourOnly(entry_at) ==
  LET h == ((entry_at.t + LaUtcOffset(entry_at.t)) % Day) \div Hour
  IN IF ~entry_at.aware THEN "ValueError"
     ELSE IF h >= 6 /\ h < 13 THEN "NY"
     ELSE IF h < 6 THEN "London"
     ELSE IF h < 15 THEN "Break"
     ELSE "Asia"

infer_session_from_entry(entry_at) ==
  LET local == (entry_at.t + LaUtcOffset(entry_at.t)) % Day
      h == local \div Hour
      m == (local % Hour) \div 60
      after_or_equal(hour, minute) == (h > hour) \/ (h = hour /\ m >= minute)
      before(hour, minute) == (h < hour) \/ (h = hour /\ m < minute)
  IN IF ~entry_at.aware THEN "ValueError"
     ELSE IF after_or_equal(6, 30) /\ before(13, 0) THEN "NY"
     ELSE IF after_or_equal(0, 0) /\ before(6, 30) THEN "London"
     ELSE IF after_or_equal(13, 0) /\ before(15, 0) THEN "Break"
     ELSE IF after_or_equal(15, 0) THEN "Asia"
     ELSE "Break"

_ensure_aware(dt) == [dt EXCEPT !.aware = TRUE]

\* datetime.now(timezone.utc)
Now == [t |-> clock, aware |-> TRUE]

\* 2025-01-02T15:00:00Z (07:00 in Los Angeles)
ClockStart == 1 * Day + 15 * Hour

(***************************************************************************)
(* Store operations of app/services/db.py.                                 *)
(***************************************************************************)
check_trade_belongs_to_user(trade_id, user_id) ==
  IF trade_id \notin TradeIds THEN "LookupError"
  ELSE IF TradeById(trade_id).user_id # user_id THEN "PermissionError"
  ELSE "ok"

OwnerOfTrade(trade_id) ==
  IF trade_id \in TradeIds THEN Some(TradeById(trade_id).user_id) ELSE None

\* the row insert_trade sends, with the id and sort_at the store gives it
insert_trade(id, sort_at, user_id, note, taken_at, exit_at, outcome, strategies, session, side, entry_price, exit_price, contracts, pnl, symbol, account_id) ==
  [BlankTrade EXCEPT
     !.id = id, !.sort_at = Some(sort_at), !.user_id = user_id, !.note = note,
     !.taken_at = Some(taken_at.t),
     !.exit_at = IF IsSome(exit_at) THEN Some(Val(exit_at).t) ELSE None,
     !.outcome = outcome, !.strategies = strategies, !.session = session,
     !.side = side, !.entry_price = entry_price, !.exit_price = exit_price,
     !.contracts = contracts, !.pnl = pnl, !.symbol = symbol,
     !.account_id = account_id]

\* the trade row and its images, or None
fetch_trade_with_images(user_id, trade_id) ==
  IF \E t \in trades : t.id = trade_id /\ t.user_id = user_id
    THEN Some([trade |-> TradeById(trade_id),
               images |-> {im \in images : im.trade_id = trade_id}])
    ELSE None

\* mutant: every parameter is written, None included
Touch_Overwrite(old, new) == new

\* only the parameters that are not None are written
Touch(old, new) == IF IsSome(new) THEN new ELSE old

UpdatePayloadEmpty(p) ==
  \A k \in DOMAIN p : p[k] = None

\* the trades table after update_trade_fields
update_trade_fields(user_id, trade_id, p) ==
  IF UpdatePayloadEmpty(p) THEN trades
  ELSE {IF t.id = trade_id /\ t.user_id = user_id
          THEN [t EXCEPT
                  !.note = IF IsSome(p.note) THEN Val(p.note) ELSE @,
                  !.taken_at = Touch(@, p.taken_at),
                  !.exit_at = Touch(@, p.exit_at),
                  !.outcome = Touch(@, p.outcome),
                  !.strategies = Touch(@, p.strategies),
                  !.session = Touch(@, p.session),
                  !.mistakes = Touch(@, p.mistakes),
                  !.side = Touch(@, p.side),
                  !.entry_price = Touch(@, p.entry_price),
                  !.exit_price = Touch(@, p.exit_price),
                  !.contracts = Touch(@, p.contracts),
                  !.pnl = Touch(@, p.pnl),
                  !.symbol = Touch(@, p.symbol)]
          ELSE t : t \in trades}

\* the image row of that id under that trade, or the exception raised
get_image_for_trade(user_id, trade_id, image_id) ==
  LET rows == {im \in images : im.id = image_id /\ im.trade_id = trade_id}
  IN IF rows = {} THEN [exc |-> "LookupError", row |-> None]
     ELSE LET im == CHOOSE x \in rows : TRUE
          IN IF im.user_id # user_id THEN [exc |-> "PermissionError", row |-> None]
             ELSE [exc |-> "ok", row |-> Some(im)]

\* the images table after delete_image_record
delete_image_record(image_id) == {im \in images : im.id # image_id}

\* the trades table after delete_trade_record
delete_trade_record(user_id, trade_id) ==
  {t \in trades : ~(t.id = trade_id /\ t.user_id = user_id)}

(***************************************************************************)
(* Storage keys: u/<user_id>/trades/<trade_id>/<name>.                     *)
(***************************************************************************)
gen_key(user_id, trade_id, name) == <<"u", user_id, "trades", trade_id, name>>

HasExpectedPrefix_AnyOwner(key, user_id, trade_id) ==
  Len(key) >= 5 /\ key[1] = "u" /\ key[3] = "trades" /\ key[4] = trade_id

\* body.key.startswith(f"u/{user_id}/trades/{trade_id}/"): the key is the
\* sequence of its parts between slashes, and the slash that ends the prefix
\* asks for a fifth part
HasExpectedPrefix(key, user_id, trade_id) ==
  Len(key) >= 5 /\ SubSeq(key, 1, 4) = <<"u", user_id, "trades", trade_id>>

\* uuid.uuid4() of presign_upload: an identifier no row of the store has
FreshUuid == 0

(***************************************************************************)
(* Handlers of app/api/routes/trades.py.                                   *)
(***************************************************************************)
BlankBody ==
  [note |-> None, takenAt |-> None, exitAt |-> None, outcome |-> None,
   strategies |-> None, mistakes |-> None, side |-> None, entryPrice |-> None,
   exitPrice |-> None, contracts |-> None, pnl |-> None, symbol |-> None,
   accountId |-> None]

\* no delete_trade and no create_image in progress, none answered, and no
\* update_trade kept
\* the store and object-storage calls that fail during a delete request
NoFault ==
  [op |-> "none", trade_id |-> 0, image_id |-> 0, rows |-> {}, keys |-> {},
   trade |-> FALSE]

\* the response of the AI provider to the last analysis request
NoAi ==
  [trade_id |-> 0, image_id |-> 0,
   response |-> [raised |-> FALSE, output_text |-> None, part_text |-> None]]

\* an import request that runs beside another one: where it is in the
\* processing of its row
IdleImport ==
  [pc |-> "idle", creds |-> NoResp.creds, user_id |-> "u1", row |-> None,
   outcome |-> "none"]

NoRequests ==
  [fault |-> NoFault,
   race |-> [a |-> IdleImport, b |-> IdleImport],
   ai |-> NoAi,
   del |-> [pc |-> "idle", creds |-> NoResp.creds,
            user_id |-> "u1", trade_id |-> 0, imgs |-> {}],
   img |-> [pc |-> "idle", creds |-> NoResp.creds,
            user_id |-> "u1", trade_id |-> 0, key |-> <<>>],
   deleted |-> {},
   put |-> [trade_id |-> 0, body |-> BlankBody, written |-> FALSE]]

storeVars == <<trades, images, analyses, objects, nextId>>

\* the exception of check_trade_belongs_to_user in a handler that does not
\* catch it: the unhandled-exception response, or None when the check passes
OwnershipGate(op, creds, auth, trade_id) ==
  IF check_trade_belongs_to_user(trade_id, Val(auth)) # "ok"
    THEN Some(Unhandled(op, creds, auth, OwnerOfTrade(trade_id)))
    ELSE None

get_trade_response(tok, trade_id) ==
  LET creds == Creds(tok, None)
      auth == verify_supabase_token(tok)
  IN IF ~IsSome(auth) THEN Unauthorized("get_trade", creds)
     ELSE LET trade == fetch_trade_with_images(Val(auth), trade_id)
          IN IF ~IsSome(trade)
               THEN Response("get_trade", creds, auth, OwnerOfTrade(trade_id),
                             404, "trade_not_found", None)
               ELSE Response("get_trade", creds, auth, OwnerOfTrade(trade_id),
                             200, "", Some(Val(trade).trade))

\* GET /trades/{trade_id}
get_trade(Toks, Ids) ==
  /\ \E tok \in Toks, trade_id \in Ids : resp' = get_trade_response(tok, trade_id)
  /\ UNCHANGED <<storeVars, clock, walk, imp, reqs>>

\* POST /trades
create_trade(Toks, Bodies, Stored) ==
  /\ nextId <= MaxIds
  /\ \E tok \in Toks, body \in Bodies, sort_at \in SortAts, stored \in Stored :
       LET creds == Creds(tok, None)
           auth == verify_supabase_token(tok)
       IN IF ~IsSome(auth)
          THEN /\ resp' = Unauthorized("create_trade", creds)
               /\ UNCHANGED <<trades, nextId>>
          ELSE LET user_id == Val(auth)
                   taken_at == IF IsSome(body.takenAt)
                                 THEN _ensure_aware(Val(body.takenAt)) ELSE Now
                   exit_at == IF IsSome(body.exitAt)
                                THEN Some(_ensure_aware(Val(body.exitAt))) ELSE None
                   session == infer_session_from_entry(taken_at)
                   row == insert_trade(nextId, sort_at, user_id,
                            IF IsSome(body.note) THEN Val(body.note) ELSE "",
                            taken_at, exit_at, body.outcome, body.strategies,
                            Some(session), body.side, body.entryPrice,
                            body.exitPrice, body.contracts, body.pnl,
                            body.symbol, body.accountId)
               IN IF session = "ValueError"
                  THEN /\ resp' = Response("create_trade", creds, auth, None,
                                           400, "entry_at must be timezone-aware", None)
                       /\ UNCHANGED <<trades, nextId>>
                  ELSE IF ~stored
                  THEN /\ resp' = Unhandled("create_trade", creds, auth, None)
                       /\ UNCHANGED <<trades, nextId>>
                  ELSE /\ trades' = trades \cup {row}
                       /\ nextId' = nextId + 1
                       /\ resp' = Response("create_trade", creds, auth, None,
                                           200, "", Some([tradeId |-> row.id]))
  /\ UNCHANGED <<images, analyses, objects, clock, walk, imp, reqs>>

\* the keyword arguments update_trade passes to update_trade_fields
\* mutant: the session is not recomputed when the entry time is replaced
UpdateParams_StaleSession(body) ==
  [note |-> body.note,
   taken_at |-> IF IsSome(body.takenAt)
                  THEN Some(_ensure_aware(Val(body.takenAt)).t) ELSE None,
   exit_at |-> IF IsSome(body.exitAt)
                 THEN Some(_ensure_aware(Val(body.exitAt)).t) ELSE None,
   outcome |-> body.outcome, strategies |-> body.strategies,
   session |-> None,
   mistakes |-> body.mistakes, side |-> body.side,
   entry_price |-> body.entryPrice, exit_price |-> body.exitPrice,
   contracts |-> body.contracts, pnl |-> body.pnl, symbol |-> body.symbol]

UpdateParams(body) ==
  LET taken_at == IF IsSome(body.takenAt)
                    THEN Some(_ensure_aware(Val(body.takenAt))) ELSE None
  IN [note |-> body.note,
      taken_at |-> IF IsSome(taken_at) THEN Some(Val(taken_at).t) ELSE None,
      exit_at |-> IF IsSome(body.exitAt)
                    THEN Some(_ensure_aware(Val(body.exitAt)).t) ELSE None,
      outcome |-> body.outcome, strategies |-> body.strategies,
      session |-> IF IsSome(taken_at)
                    THEN Some(infer_session_from_entry(Val(taken_at))) ELSE None,
      mistakes |-> body.mistakes, side |-> body.side,
      entry_price |-> body.entryPrice, exit_price |-> body.exitPrice,
      contracts |-> body.contracts, pnl |-> body.pnl, symbol |-> body.symbol]

\* PUT /trades/{trade_id} with one token, one identifier and one body
update_trade_step(tok, trade_id, body) ==
  /\ LET creds == Creds(tok, None)
         auth == verify_supabase_token(tok)
     IN IF ~IsSome(auth)
        THEN /\ resp' = Unauthorized("update_trade", creds)
             /\ UNCHANGED trades
        ELSE LET user_id == Val(auth)
                 owner == OwnerOfTrade(trade_id)
             IN IF IsSome(OwnershipGate("update_trade", creds, auth, trade_id))
                THEN /\ resp' = Val(OwnershipGate("update_trade", creds, auth, trade_id))
                     /\ UNCHANGED trades
                ELSE /\ trades' = update_trade_fields(user_id, trade_id,
                                                      UpdateParams(body))
                     /\ resp' = Response("update_trade", creds, auth, owner, 200, "",
                                  Some(CHOOSE t \in trades' : t.id = trade_id))
  /\ walk' = Watched(trades')
  /\ UNCHANGED <<images, analyses, objects, nextId, clock, imp>>

\* PUT /trades/{trade_id}
update_trade(Toks, Ids, Bodies) ==
  /\ \E tok \in Toks, trade_id \in Ids, body \in Bodies :
       update_trade_step(tok, trade_id, body)
  /\ UNCHANGED reqs

\* PUT /trades/{trade_id}, the request kept: its identifier, its body, and
\* whether update_trade_fields sent an update to the store
update_trade_recorded(Toks, Ids, Bodies) ==
  \E tok \in Toks, trade_id \in Ids, body \in Bodies :
    /\ update_trade_step(tok, trade_id, body)
    /\ reqs' = [reqs EXCEPT !.put =
         [trade_id |-> trade_id, body |-> body,
          written |-> ~UpdatePayloadEmpty(UpdateParams(body))]]

\* DELETE /trades/{trade_id}
delete_trade(Toks, Ids) ==
  /\ \E tok \in Toks, trade_id \in Ids :
       LET creds == Creds(tok, None)
           auth == verify_supabase_token(tok)
       IN IF ~IsSome(auth)
          THEN /\ resp' = Unauthorized("delete_trade", creds)
               /\ UNCHANGED <<trades, images, objects>>
          ELSE LET user_id == Val(auth)
                   owner == OwnerOfTrade(trade_id)
               IN IF IsSome(OwnershipGate("delete_trade", creds, auth, trade_id))
                  THEN /\ resp' = Val(OwnershipGate("delete_trade", creds, auth, trade_id))
                       /\ UNCHANGED <<trades, images, objects>>
                  ELSE LET imgs == Val(fetch_trade_with_images(user_id, trade_id)).images
                       IN /\ images' = {im \in images : im \notin imgs}
                          /\ objects' = objects \ {im.s3_key : im \in imgs}
                          /\ trades' = delete_trade_record(user_id, trade_id)
                          /\ resp' = Response("delete_trade", creds, auth, owner,
                                              204, "", None)
  /\ walk' = Watched(trades')
  /\ UNCHANGED <<analyses, nextId, clock, imp, reqs>>

\* POST /trades/{trade_id}/images
create_image(Toks, Ids, Keys) ==
  /\ nextId <= MaxIds
  /\ \E tok \in Toks, trade_id \in Ids, key \in Keys :
       LET creds == Creds(tok, None)
           auth == verify_supabase_token(tok)
       IN IF ~IsSome(auth)
          THEN /\ resp' = Unauthorized("create_image", creds)
               /\ UNCHANGED <<images, nextId>>
          ELSE LET user_id == Val(auth)
                   owner == OwnerOfTrade(trade_id)
                   row == [id |-> nextId, user_id |-> user_id,
                           trade_id |-> trade_id, s3_key |-> key]
               IN IF IsSome(OwnershipGate("create_image", creds, auth, trade_id))
                  THEN /\ resp' = Val(OwnershipGate("create_image", creds, auth, trade_id))
                       /\ UNCHANGED <<images, nextId>>
                  ELSE IF ~HasExpectedPrefix(key, user_id, trade_id)
                  THEN /\ resp' = Response("create_image", creds, auth, owner,
                                           400, "invalid_key_prefix", None)
                       /\ UNCHANGED <<images, nextId>>
                  ELSE /\ images' = images \cup {row}
                       /\ nextId' = nextId + 1
                       /\ resp' = Response("create_image", creds, auth, owner,
                                           201, "", Some(row))
  /\ UNCHANGED <<trades, analyses, objects, clock, walk, imp, reqs>>

\* DELETE /trades/{trade_id}/images/{image_id}
delete_image(Toks, Ids, ImageIds) ==
  /\ \E tok \in Toks, trade_id \in Ids, image_id \in ImageIds :
       LET creds == Creds(tok, None)
           auth == verify_supabase_token(tok)
       IN IF ~IsSome(auth)
          THEN /\ resp' = Unauthorized("delete_image", creds)
               /\ UNCHANGED <<images, objects>>
          ELSE LET user_id == Val(auth)
                   owner == OwnerOfTrade(trade_id)
                   img == get_image_for_trade(user_id, trade_id, image_id)
               IN IF IsSome(OwnershipGate("delete_image", creds, auth, trade_id))
                  THEN /\ resp' = Val(OwnershipGate("delete_image", creds, auth, trade_id))
                       /\ UNCHANGED <<images, objects>>
                  ELSE IF img.exc = "LookupError"
                  THEN /\ resp' = Response("delete_image", creds, auth, owner,
                                           404, "image_not_found", None)
                       /\ UNCHANGED <<images, objects>>
                  ELSE IF img.exc = "PermissionError"
                  THEN /\ resp' = Response("delete_image", creds, auth, owner,
                                           403, "forbidden", None)
                       /\ UNCHANGED <<images, objects>>
                  ELSE /\ images' = delete_image_record(image_id)
                       /\ objects' = objects \ {Val(img.row).s3_key}
                       /\ resp' = Response("delete_image", creds, auth, owner,
                                           204, "", None)
  /\ UNCHANGED <<trades, analyses, nextId, clock, walk, imp, reqs>>

\* POST /trades/{trade_id}/analyze
analyze_trade_step(tok, trade_id, image_id, ai) ==
  /\   LET creds == Creds(tok, None)
           auth == verify_supabase_token(tok)
       IN IF ~IsSome(auth)
          THEN /\ resp' = Unauthorized("analyze_trade", creds)
               /\ UNCHANGED analyses
          ELSE LET user_id == Val(auth)
                   owner == OwnerOfTrade(trade_id)
                   img == get_image_for_trade(user_id, trade_id, image_id)
                   row == [user_id |-> user_id, trade_id |-> trade_id,
                           image_id |-> image_id, model |-> "gpt-4o-mini"]
               IN IF IsSome(OwnershipGate("analyze_trade", creds, auth, trade_id))
                  THEN /\ resp' = Val(OwnershipGate("analyze_trade", creds, auth, trade_id))
                       /\ UNCHANGED analyses
                  ELSE IF img.exc = "LookupError"
                  THEN /\ resp' = Response("analyze_trade", creds, auth, owner,
                                           404, "image_not_found", None)
                       /\ UNCHANGED analyses
                  ELSE IF img.exc = "PermissionError"
                  THEN /\ resp' = Response("analyze_trade", creds, auth, owner,
                                           403, "forbidden", None)
                       /\ UNCHANGED analyses
                  ELSE IF Val(img.row).s3_key \notin objects
                  THEN /\ resp' = Response("analyze_trade", creds, auth, owner,
                                           500, "image_download_failed", None)
                       /\ UNCHANGED analyses
                  ELSE IF ai # "ok"
                  THEN /\ resp' = Response("analyze_trade", creds, auth, owner,
                                           500, "ai_analysis_failed", None)
                       /\ UNCHANGED analyses
                  ELSE /\ analyses' = analyses \cup {row}
                       /\ resp' = Response("analyze_trade", creds, auth, owner,
                                           200, "", Some(row))
  /\ UNCHANGED <<trades, images, objects, nextId, clock, walk, imp>>

analyze_trade(Toks, Ids, ImageIds, Provider) ==
  /\ \E tok \in Toks, trade_id \in Ids, image_id \in ImageIds, ai \in Provider :
       analyze_trade_step(tok, trade_id, image_id, ai)
  /\ UNCHANGED reqs

(***************************************************************************)
(* Handlers of app/api/routes/images.py and app/api/routes/uploads.py.     *)
(***************************************************************************)
stream_image_response(tok, key) ==
  LET creds == Creds(tok, None)
      auth == verify_supabase_token(tok)
      recs == {im \in images : im.s3_key = key}
  IN IF ~IsSome(auth) THEN Unauthorized("stream_image", creds)
     ELSE IF recs = {}
     THEN Response("stream_image", creds, auth, None, 404, "image_not_found", None)
     ELSE LET rec == CHOOSE im \in recs : TRUE
          IN IF rec.user_id # Val(auth)
             THEN Response("stream_image", creds, auth, Some(rec.user_id),
                           403, "forbidden", None)
             ELSE IF key \notin objects
             THEN Response("stream_image", creds, auth, Some(rec.user_id),
                           404, "not_found", None)
             ELSE Response("stream_image", creds, auth, Some(rec.user_id),
                           200, "", Some(rec))

\* GET /images/{key}
stream_image(Toks, Keys) ==
  /\ \E tok \in Toks, key \in Keys : resp' = stream_image_response(tok, key)
  /\ UNCHANGED <<storeVars, clock, walk, imp, reqs>>

presign_upload_response(tok, hdr, tradeId) ==
  LET creds == Creds(tok, hdr)
      auth == get_current_user_id(hdr)
  IN IF ~IsSome(auth) THEN Unauthorized("presign_upload", creds)
     ELSE LET user_id == Val(auth)
              trade_id == IF IsSome(tradeId) THEN Val(tradeId) ELSE FreshUuid
              chk == IF IsSome(tradeId)
                       THEN check_trade_belongs_to_user(trade_id, user_id)
                       ELSE "ok"
              owner == IF IsSome(tradeId) THEN OwnerOfTrade(trade_id) ELSE None
          IN IF chk = "LookupError"
               THEN Response("presign_upload", creds, auth, owner,
                             404, "trade_not_found", None)
             ELSE IF chk = "PermissionError"
               THEN Response("presign_upload", creds, auth, owner,
                             403, "trade_not_owned", None)
             ELSE Response("presign_upload", creds, auth, owner, 200, "",
                           Some([key |-> gen_key(user_id, trade_id, "file")]))

\* POST /uploads/presign
presign_upload(Toks, Headers, TradeRefs) ==
  /\ \E tok \in Toks, hdr \in Headers, tradeId \in TradeRefs :
       resp' = presign_upload_response(tok, hdr, tradeId)
  /\ UNCHANGED <<storeVars, clock, walk, imp, reqs>>

\* the client PUTs the file to the presigned URL it was given
put_object ==
  /\ resp.op = "presign_upload" /\ resp.status = 200
  /\ Val(resp.data).key \notin objects
  /\ Cardinality(objects) < MaxObjects
  /\ objects' = objects \cup {Val(resp.data).key}
  /\ UNCHANGED <<trades, images, analyses, nextId, clock, walk, resp, imp, reqs>>

(***************************************************************************)
(* Specification of the listing over an unchanging dataset.                *)
(***************************************************************************)
PagingFilters ==
  {NoFilters, [NoFilters EXCEPT !.outcome = <<"win">>]}

PagingRows ==
  {[BlankTrade EXCEPT !.user_id = u, !.sort_at = Some(s), !.outcome = Some(o)] :
     u \in Users, s \in SortAts, o \in Outcomes}

\* the cursors a client may send with its first request
FirstCursors(n) ==
  {None} \cup {Some(_encode_cursor(s, i)) : s \in SortAts, i \in 1..n}

InitRest ==
  /\ images = {}
  /\ analyses = {}
  /\ objects = {}
  /\ clock = ClockStart
  /\ walk = IdleWalk
  /\ resp = NoResp
  /\ imp = NoImport
  /\ reqs = NoRequests

InitList ==
  /\ \E f \in [1..NTrades -> PagingRows] :
       trades = {[f[i] EXCEPT !.id = i] : i \in 1..NTrades}
  /\ nextId = NTrades + 1
  /\ InitRest

NextList ==
  \/ WalkStart({"u1"}, 1..MaxLimit, PagingFilters, FirstCursors(NTrades))
  \/ ListPage

SpecList == InitList /\ [][NextList]_vars

(***************************************************************************)
(* Claims about the listing.                                               *)
(***************************************************************************)
RECURSIVE Flatten(_)
Flatten(pages) ==
  IF pages = <<>> THEN <<>>
  ELSE Flatten(SubSeq(pages, 1, Len(pages) - 1)) \o pages[Len(pages)].items

\* a trade satisfies every non-empty dimension of the filter set
InDimension(value, given) ==
  given = <<>> \/ (IsSome(value) /\ Val(value) \in SeqToSet(given))

Selects(f, t) ==
  /\ InDimension(t.outcome, f.outcome)
  /\ InDimension(t.session, f.session)
  /\ InDimension(t.symbol, [i \in DOMAIN f.symbol |-> Upper(f.symbol[i])])
  /\ f.strategy = <<>> \/ (IsSome(t.strategies) /\ SeqToSet(f.strategy) \subseteq Val(t.strategies))

\* (sort_at, id) of a is strictly greater than that of b
KeyGreater(a, b) ==
  \/ Val(a.sort_at) > Val(b.sort_at)
  \/ Val(a.sort_at) = Val(b.sort_at) /\ a.id > b.id

WalkFromStart == walk.pages # <<>> /\ walk.pages[1].cursor = None

\* C1: over an unchanging dataset, the pages of a walk that starts without a
\* cursor and follows each nextCursor until it is absent hold, concatenated,
\* exactly the requesting user's trades that match the filters, in descending
\* (sort_at, id) order, none twice and none omitted.
C1_PagingLossless ==
  (walk.status = "done" /\ WalkFromStart) =>
    LET all == Flatten(walk.pages)
        want == {t \in trades : t.user_id = walk.user /\ Selects(walk.filters, t)}
    IN /\ {all[k].id : k \in DOMAIN all} = {t.id : t \in want}
       /\ Len(all) = Cardinality(want)
       /\ \A k \in 1..(Len(all) - 1) : KeyGreater(all[k], all[k + 1])

C1_Witness ==
  /\ walk.status = "done" /\ WalkFromStart
  /\ Len(walk.pages) >= 3
  /\ walk.filters.outcome # <<>>
  /\ Len(Flatten(walk.pages)) = 2
  /\ \E t \in trades : t.user_id # walk.user \/ ~Selects(walk.filters, t)
  /\ \E a, b \in trades : a.id # b.id /\ a.sort_at = b.sort_at
                          /\ a.id \in walk.pre /\ b.id \in walk.pre

\* C3: a response carries a nextCursor exactly when its page holds `limit`
\* items, and the cursor then decodes to the (sort_at, id) of the last item.
C3_CursorIffFullPage ==
  \A k \in DOMAIN walk.pages :
    LET p == walk.pages[k]
    IN /\ IsSome(p.nextCursor) <=> Len(p.items) = walk.limit
       /\ IsSome(p.nextCursor) =>
            LET d == _decode_cursor(Val(p.nextCursor))
                tail == p.items[Len(p.items)]
            IN d.ok /\ d.sort_at = Val(tail.sort_at) /\ d.id = tail.id

C3_Witness ==
  /\ Len(walk.pages) = 2
  /\ IsSome(walk.pages[1].nextCursor)
  /\ Len(walk.pages[1].items) = 2
  /\ walk.pages[2].nextCursor = None
  /\ Len(walk.pages[2].items) = 1

\* C4: a page holds at most `limit` items, each a trade of the requesting
\* user, in strictly descending (sort_at, id) order, and each strictly after
\* the cursor the request carried.
C4_PageShape ==
  \A k \in DOMAIN walk.pages :
    LET p == walk.pages[k]
    IN /\ Len(p.items) <= walk.limit
       /\ \A j \in DOMAIN p.items :
            /\ p.items[j].id \in TradeIds
            /\ TradeById(p.items[j].id).user_id = walk.user
       /\ \A j \in 1..(Len(p.items) - 1) : KeyGreater(p.items[j], p.items[j + 1])
       /\ IsSome(p.cursor) =>
            LET c == _decode_cursor(Val(p.cursor))
            IN \A j \in DOMAIN p.items :
                 \/ Val(p.items[j].sort_at) < c.sort_at
                 \/ Val(p.items[j].sort_at) = c.sort_at /\ p.items[j].id < c.id

C4_Witness ==
  /\ Len(walk.pages) = 1
  /\ IsSome(walk.pages[1].cursor)
  /\ Len(walk.pages[1].items) = 2
  /\ \E t \in trades :
       /\ t.user_id = walk.user
       /\ Selects(walk.filters, t)
       /\ t.id \notin {walk.pages[1].items[j].id : j \in 1..2}

(***************************************************************************)
(* Specification of the listing under every combination of the four filter *)
(* dimensions.                                                             *)
(***************************************************************************)
FilterRows ==
  {[BlankTrade EXCEPT !.sort_at = Some(1), !.outcome = o, !.session = Some(se),
                      !.symbol = sy, !.strategies = st] :
     o \in {None, Some("win"), Some("loss")},
     se \in {"NY", "London"},
     sy \in {None, Some("ES"), Some("es")},
     st \in {None, Some({"a"}), Some({"a", "b"})}}

AllFilters ==
  {[outcome |-> o, session |-> se, strategy |-> st, symbol |-> sy] :
     o \in {<<>>, <<"win">>, <<"win", "loss">>},
     se \in {<<>>, <<"NY">>},
     st \in {<<>>, <<"a">>, <<"a", "b">>},
     sy \in {<<>>, <<"ES">>, <<"es">>}}

InitFilter ==
  /\ \E f \in [1..NFilterTrades -> FilterRows] :
       trades = {[f[i] EXCEPT !.id = i] : i \in 1..NFilterTrades}
  /\ nextId = NFilterTrades + 1
  /\ InitRest

NextFilter ==
  \/ WalkStart({"u1"}, {MaxLimit}, AllFilters, {None})
  \/ ListPage

SpecFilter == InitFilter /\ [][NextFilter]_vars

\* the filter set read literally: symbol is one of the given symbols
SelectsLiteral(f, t) ==
  /\ InDimension(t.outcome, f.outcome)
  /\ InDimension(t.session, f.session)
  /\ InDimension(t.symbol, f.symbol)
  /\ f.strategy = <<>> \/ (IsSome(t.strategies) /\ SeqToSet(f.strategy) \subseteq Val(t.strategies))

Returned == {Flatten(walk.pages)[k].id : k \in DOMAIN Flatten(walk.pages)}

\* C5 as stated: the listing returns exactly the trades whose outcome, session
\* and symbol are among the given values and whose strategies contain all the
\* given strategies, an empty dimension imposing nothing.
C5_FilterLiteral ==
  (walk.status = "done" /\ WalkFromStart) =>
    Returned = {t.id : t \in {x \in trades :
                  x.user_id = walk.user /\ SelectsLiteral(walk.filters, x)}}

\* C5 amended: as stated, except that the symbol must be one of the given
\* symbols after these were upper-cased.
C5_FilterUpperCased ==
  (walk.status = "done" /\ WalkFromStart) =>
    Returned = {t.id : t \in {x \in trades :
                  x.user_id = walk.user /\ Selects(walk.filters, x)}}

C5_Witness ==
  /\ walk.status = "done" /\ WalkFromStart
  /\ walk.filters.symbol = <<"es">>
  /\ walk.filters.outcome = <<"win", "loss">>
  /\ walk.filters.strategy = <<"a">>
  /\ Returned # {}
  /\ \E t \in trades : t.id \in Returned /\ t.strategies = Some({"a", "b"})

(***************************************************************************)
(* Specification of the handlers that address a trade or an image, called  *)
(* by owners, by other users and without a valid token.                    *)
(***************************************************************************)
OwnTokens ==
  {[sub |-> "u1", valid |-> TRUE], [sub |-> "u2", valid |-> TRUE],
   [sub |-> "u1", valid |-> FALSE]}

AllIds == 1..MaxIds

OwnKeys == {gen_key(u, i, "file") : u \in Users, i \in AllIds}

OptUsers == {None} \cup {Some(u) : u \in Users}

OptIds == {None} \cup {Some(i) : i \in AllIds}

NoteBodies == {BlankBody, [BlankBody EXCEPT !.note = Some("x")]}

InitOwn ==
  /\ trades = {}
  /\ nextId = 1
  /\ InitRest

Providers == {"ok", "fail"}

NextOwn ==
  \/ create_trade(OwnTokens, {BlankBody}, BOOLEAN)
  \/ get_trade(OwnTokens, AllIds)
  \/ update_trade(OwnTokens, AllIds, NoteBodies)
  \/ delete_trade(OwnTokens, AllIds)
  \/ create_image(OwnTokens, AllIds, OwnKeys)
  \/ delete_image(OwnTokens, AllIds, AllIds)
  \/ analyze_trade(OwnTokens, AllIds, AllIds, Providers)
  \/ stream_image(OwnTokens, OwnKeys)
  \/ presign_upload(OwnTokens, OptUsers, OptIds)
  \/ put_object

SpecOwn == InitOwn /\ [][NextOwn]_vars

(***************************************************************************)
(* Claims about ownership.                                                 *)
(***************************************************************************)
RecordOps ==
  {"get_trade", "update_trade", "delete_trade", "delete_image", "create_image",
   "analyze_trade", "stream_image"}

\* the latest request addressed a record that exists and whose owner is not
\* the user the handler acted for
ForeignRequest ==
  /\ resp.op \in RecordOps
  /\ IsSome(resp.acting) /\ IsSome(resp.owner)
  /\ resp.owner # resp.acting

\* C6: a request for a trade or image of another owner is answered 404 or
\* 403 and nothing else, carries no data, and changes no row.
C6_ForeignIsNotFoundOrForbidden ==
  [][ForeignRequest' =>
       /\ resp'.status \in {403, 404}
       /\ resp'.data = None
       /\ trades' = trades /\ images' = images /\ analyses' = analyses]_vars

\* what the caller sees of a response
Seen(r) == <<r.status, r.detail, r.data>>

ValidTokens == {tok \in Tokens : tok.valid}

GatedOps == {"update_trade", "delete_trade", "create_image", "delete_image",
             "analyze_trade"}

\* C7: for every operation that takes a trade or image identifier, the caller
\* sees the same response for a record that does not exist as for a record of
\* another owner.
C7_MissingAndForeignAlike ==
  \A tok \in ValidTokens :
    /\ \A f \in TradeIds, m \in AllIds \ TradeIds :
         TradeById(f).user_id # tok.sub =>
           /\ Seen(get_trade_response(tok, f)) = Seen(get_trade_response(tok, m))
           /\ \A op \in GatedOps :
                LET creds == Creds(tok, None)
                    auth == verify_supabase_token(tok)
                IN Seen(Val(OwnershipGate(op, creds, auth, f)))
                     = Seen(Val(OwnershipGate(op, creds, auth, m)))
           /\ Seen(presign_upload_response(tok, Some(tok.sub), Some(f)))
                = Seen(presign_upload_response(tok, Some(tok.sub), Some(m)))
    /\ \A f \in {im.s3_key : im \in images}, m \in OwnKeys \ {im.s3_key : im \in images} :
         (\A im \in images : im.s3_key = f => im.user_id # tok.sub) =>
           Seen(stream_image_response(tok, f)) = Seen(stream_image_response(tok, m))

\* C8: the user id a handler acts under is the subject of the verified token
\* of the request.
C8_ActingUserIsTokenSubject ==
  IsSome(resp.acting) => resp.acting = verify_supabase_token(resp.creds.token)

(***************************************************************************)
(* Specification of a walk of the listing while other requests create,     *)
(* change and delete trades.                                               *)
(***************************************************************************)
\* the walking user's own requests: those of other users never touch the rows
\* the listing selects
WalkTokens == {[sub |-> "u1", valid |-> TRUE]}

WalkCreateBodies == {[BlankBody EXCEPT !.outcome = Some("win")]}

WalkUpdateBodies == {[BlankBody EXCEPT !.outcome = Some("loss")]}

InitWalk ==
  /\ trades = {}
  /\ nextId = 1
  /\ InitRest

NextWalk ==
  \/ create_trade(WalkTokens, WalkCreateBodies, {TRUE})
  \/ update_trade(WalkTokens, AllIds, WalkUpdateBodies)
  \/ delete_trade(WalkTokens, AllIds)
  \/ WalkStart({"u1"}, 1..MaxLimit, PagingFilters, {None})
  \/ ListPage

SpecWalk == InitWalk /\ [][NextWalk]_vars

\* C2: while other requests insert trades between the page fetches of a walk,
\* no trade appears on two pages, and once the walk has ended every matching
\* trade that existed when it began and was neither changed nor deleted
\* meanwhile has been returned.
C2_WalkUnderInserts ==
  LET all == Flatten(walk.pages)
  IN /\ \A j, k \in DOMAIN all : j # k => all[j].id # all[k].id
     /\ walk.status = "done" =>
          \A id \in walk.pre \ walk.touched : \E k \in DOMAIN all : all[k].id = id

C2_Witness ==
  /\ walk.status = "done"
  /\ Len(walk.pages) >= 2
  /\ walk.pre \ walk.touched # {}
  /\ walk.pages[2].stored \ walk.pages[1].stored # {}
  /\ \E k \in DOMAIN walk.pages[2].items :
       walk.pages[2].items[k].id \notin walk.pages[1].stored

(***************************************************************************)
(* CSV import (POST /trades/import-csv).  A raw timestamp string is the    *)
(* wall-clock reading it spells and the UTC offset written after it, if    *)
(* any; money amounts are integers in thousandths.                         *)
(***************************************************************************)
EmptyStr == [fmt |-> "empty", wall |-> 0, off |-> None]

\* text in neither of the two formats
Garbage == [fmt |-> "other", wall |-> 0, off |-> None]

\* "01/02/2025 10:00:00"
NaiveTime == [fmt |-> "mdy", wall |-> 1 * Day + 10 * Hour, off |-> None]

\* "01/02/2025 11:00:00 -07:00"
OffsetTime == [fmt |-> "mdy", wall |-> 1 * Day + 11 * Hour, off |-> Some(0 - 7)]

\* mutant: text in neither format is taken as no value
_parse_csv_timestamp_Lenient(s) ==
  IF ~IsSome(s) \/ Val(s) = EmptyStr THEN [exc |-> "ok", dt |-> None]
  ELSE IF Val(s).fmt = "mdy" /\ IsSome(Val(s).off)
    THEN [exc |-> "ok",
          dt |-> Some([t |-> Val(s).wall - Val(Val(s).off) * Hour, aware |-> TRUE])]
  ELSE IF Val(s).fmt = "mdy"
    THEN [exc |-> "ok",
          dt |-> Some([t |-> Val(s).wall + 8 * Hour, aware |-> TRUE])]
  ELSE [exc |-> "ok", dt |-> None]

\* the datetime parsed, None for an absent or empty string, or ValueError
_parse_csv_timestamp(s) ==
  IF ~IsSome(s) \/ Val(s) = EmptyStr THEN [exc |-> "ok", dt |-> None]
  ELSE IF Val(s).fmt = "mdy" /\ IsSome(Val(s).off)
    THEN [exc |-> "ok",
          dt |-> Some([t |-> Val(s).wall - Val(Val(s).off) * Hour, aware |-> TRUE])]
  ELSE IF Val(s).fmt = "mdy"
    THEN [exc |-> "ok",
          dt |-> Some([t |-> Val(s).wall + 8 * Hour, aware |-> TRUE])]
  ELSE [exc |-> "ValueError", dt |-> None]

\* round(x, 2) on thousandths (ties to the even hundredth)
Round2(x) ==
  LET q == x \div 10
      r == x % 10
  IN IF r < 5 THEN q * 10
     ELSE IF r > 5 THEN (q + 1) * 10
     ELSE IF q % 2 = 0 THEN q * 10 ELSE (q + 1) * 10

StrOrEmpty(o) == IF IsSome(o) THEN Val(o) ELSE EmptyStr

\* mutant: the symbol of the key is trimmed but not upper-cased
dedupe_key_NoUpper(row) ==
  <<Strip(row.symbol), row.side, Round2(row.pnl), StrOrEmpty(row.entry_time),
    StrOrEmpty(row.exit_time), row.entry_price, row.exit_price, row.contracts>>

\* the key of a row within its file
dedupe_key(row) ==
  <<Upper(Strip(row.symbol)), row.side, Round2(row.pnl), StrOrEmpty(row.entry_time),
    StrOrEmpty(row.exit_time), row.entry_price, row.exit_price, row.contracts>>

\* the accounts table
Accounts == {[id |-> "a1", user_id |-> "u1"], [id |-> "a2", user_id |-> "u2"]}

\* no account given, or an account of that user
ensure_account_belongs_to_user(account_id, user_id) ==
  \/ ~IsSome(account_id)
  \/ \E a \in Accounts : a.id = Val(account_id) /\ a.user_id = user_id

\* a trade of the user equal to the row on symbol, side, pnl, entry instant,
\* exit instant, entry price, exit price and contracts
trade_exists_for_user(user_id, symbol, side, pnl, taken_at, exit_at, entry_price, exit_price, contracts) ==
  \E t \in trades :
    /\ t.user_id = user_id
    /\ t.symbol = Some(symbol)
    /\ t.side = Some(side)
    /\ t.pnl = Some(pnl)
    /\ t.taken_at = Some(taken_at.t)
    /\ t.exit_at = (IF IsSome(exit_at) THEN Some(Val(exit_at).t) ELSE None)
    /\ t.entry_price = entry_price
    /\ t.exit_price = exit_price
    /\ t.contracts = contracts

\* mutant: the handler does not validate the account
AccountRejected_Skipped(account_id, user_id) == FALSE

\* the call of ensure_account_belongs_to_user ahead of the loop raises
AccountRejected(account_id, user_id) ==
  ~ensure_account_belongs_to_user(account_id, user_id)

\* the request arrives: authentication, account validation, counters at zero
import_trades_csv_begin(Toks, Files, AccountIds) ==
  /\ imp.status # "running"
  /\ imp.n < MaxImports
  /\ \E tok \in Toks, rows \in Files, accountId \in AccountIds :
       LET creds == Creds(tok, None)
           auth == verify_supabase_token(tok)
       IN IF ~IsSome(auth)
          THEN /\ resp' = Unauthorized("import_trades_csv", creds)
               /\ UNCHANGED imp
          ELSE IF AccountRejected(accountId, Val(auth))
          THEN /\ resp' = Response("import_trades_csv", creds, auth, None,
                                   400, "invalid_account", None)
               /\ imp' = [imp EXCEPT !.status = "rejected", !.n = @ + 1,
                            !.user = Val(auth), !.account_id = accountId,
                            !.rows = rows, !.i = 1, !.seen_keys = {},
                            !.inserted = 0, !.failed = 0, !.duplicates = 0,
                            !.outcomes = <<>>, !.before = trades,
                            !.prior = imp.hist]
          ELSE /\ resp' = Response("import_trades_csv", creds, auth, None,
                                   0, "", None)
               /\ imp' = [imp EXCEPT !.status = "running", !.n = @ + 1,
                            !.user = Val(auth), !.account_id = accountId,
                            !.rows = rows, !.i = 1, !.seen_keys = {},
                            !.inserted = 0, !.failed = 0, !.duplicates = 0,
                            !.outcomes = <<>>, !.before = trades,
                            !.prior = imp.hist]
  /\ UNCHANGED <<storeVars, clock, walk, reqs>>

\* one iteration of the loop over payload.rows
import_trades_csv_row(Stored, StoreSortAts) ==
  /\ imp.status = "running"
  /\ imp.i <= Len(imp.rows)
  /\ \E stored \in Stored, sort_at \in StoreSortAts :
       LET row == imp.rows[imp.i]
           key == dedupe_key(row)
           entry == _parse_csv_timestamp(row.entry_time)
           exit == _parse_csv_timestamp(row.exit_time)
           taken_at == IF IsSome(entry.dt) THEN Val(entry.dt) ELSE Now
           exit_at == exit.dt
           symbol_norm == Strip(row.symbol)
           outcome == IF row.pnl > 0 THEN "win"
                      ELSE IF row.pnl < 0 THEN "loss" ELSE "breakeven"
           inferred == infer_session_from_entry(taken_at)
           session == IF inferred = "ValueError" THEN None ELSE Some(inferred)
           new == insert_trade(nextId, sort_at, imp.user, "", taken_at, exit_at,
                               Some(outcome), None, session, Some(row.side),
                               row.entry_price, row.exit_price, row.contracts,
                               Some(row.pnl), Some(symbol_norm), imp.account_id)
       IN IF key \in imp.seen_keys
          THEN /\ imp' = [imp EXCEPT !.i = @ + 1, !.duplicates = @ + 1,
                            !.outcomes = Append(@, "file_duplicate")]
               /\ UNCHANGED <<trades, nextId>>
          ELSE IF entry.exc # "ok" \/ exit.exc # "ok"
          THEN /\ imp' = [imp EXCEPT !.i = @ + 1, !.failed = @ + 1,
                            !.seen_keys = @ \cup {key},
                            !.outcomes = Append(@, "failed")]
               /\ UNCHANGED <<trades, nextId>>
          ELSE IF trade_exists_for_user(imp.user, symbol_norm, row.side, row.pnl,
                                        taken_at, exit_at, row.entry_price,
                                        row.exit_price, row.contracts)
          THEN /\ imp' = [imp EXCEPT !.i = @ + 1, !.duplicates = @ + 1,
                            !.seen_keys = @ \cup {key},
                            !.outcomes = Append(@, "store_duplicate")]
               /\ UNCHANGED <<trades, nextId>>
          ELSE IF ~stored
          THEN /\ imp' = [imp EXCEPT !.i = @ + 1, !.failed = @ + 1,
                            !.seen_keys = @ \cup {key},
                            !.outcomes = Append(@, "failed")]
               /\ UNCHANGED <<trades, nextId>>
          ELSE /\ trades' = trades \cup {new}
               /\ nextId' = nextId + 1
               /\ imp' = [imp EXCEPT !.i = @ + 1, !.inserted = @ + 1,
                            !.seen_keys = @ \cup {key},
                            !.outcomes = Append(@, "inserted"),
                            !.hist = @ \cup {[user |-> imp.user, row |-> row,
                                              id |-> nextId]}]
  /\ UNCHANGED <<images, analyses, objects, clock, walk, resp, reqs>>

\* mutant: the rows that raised are not reported
CsvImportResult_NoFailed(inserted, failed, duplicates) ==
  [insertedCount |-> inserted, failedCount |-> 0, skippedCount |-> duplicates]

CsvImportResult(inserted, failed, duplicates) ==
  [insertedCount |-> inserted, failedCount |-> failed, skippedCount |-> duplicates]

\* the loop has ended: the counts are returned
import_trades_csv_return ==
  /\ imp.status = "running"
  /\ imp.i > Len(imp.rows)
  /\ imp' = [imp EXCEPT !.status = "done"]
  /\ resp' = [resp EXCEPT !.status = 200,
                !.data = Some(CsvImportResult(imp.inserted, imp.failed,
                                              imp.duplicates))]
  /\ UNCHANGED <<storeVars, clock, walk, reqs>>

\* time passes
Tick ==
  /\ clock < ClockStart + MaxTicks * Hour
  /\ clock' = clock + Hour
  /\ UNCHANGED <<storeVars, walk, resp, imp, reqs>>

(***************************************************************************)
(* Specification of successive CSV imports.                                *)
(***************************************************************************)
BaseRow ==
  [symbol |-> "ES", side |-> "buy", pnl |-> 10000, entry_time |-> Some(NaiveTime),
   exit_time |-> None, entry_price |-> None, exit_price |-> None,
   contracts |-> None]

CsvRows ==
  {BaseRow,
   [BaseRow EXCEPT !.symbol = "es"],
   [BaseRow EXCEPT !.entry_time = None],
   [BaseRow EXCEPT !.entry_time = Some(Garbage)]}

Batches(n) == UNION {[1..k -> CsvRows] : k \in 1..n}

CsvTokens == {[sub |-> "u1", valid |-> TRUE], [sub |-> "u1", valid |-> FALSE]}

InitCsv ==
  /\ trades = {}
  /\ nextId = 1
  /\ InitRest

CsvAccountIds == {None, Some("a2")}

NextCsv ==
  \/ import_trades_csv_begin(CsvTokens, Batches(MaxRows), CsvAccountIds)
  \/ import_trades_csv_row(BOOLEAN, {1})
  \/ import_trades_csv_return
  \/ Tick

SpecCsv == InitCsv /\ [][NextCsv]_vars

(***************************************************************************)
(* Claims about the CSV import.                                            *)
(***************************************************************************)
\* the dedupe key as the contract words it: upper-cased trimmed symbol, side,
\* pnl rounded to 2 decimals, raw entry and exit strings, prices, contracts
KeyOfRow(row) ==
  <<Upper(Strip(row.symbol)), row.side, Round2(row.pnl),
    IF IsSome(row.entry_time) THEN Val(row.entry_time) ELSE EmptyStr,
    IF IsSome(row.exit_time) THEN Val(row.exit_time) ELSE EmptyStr,
    row.entry_price, row.exit_price, row.contracts>>

Count(outcomes, kinds) == Cardinality({k \in DOMAIN outcomes : outcomes[k] \in kinds})

\* a row with the key of an earlier row of the batch is skipped and counted,
\* and no key has two inserts
InFileDedupe ==
  /\ \A k \in DOMAIN imp.outcomes :
       (\E j \in 1..(k - 1) : KeyOfRow(imp.rows[j]) = KeyOfRow(imp.rows[k]))
         => imp.outcomes[k] = "file_duplicate"
  /\ \A j, k \in DOMAIN imp.outcomes :
       (j # k /\ KeyOfRow(imp.rows[j]) = KeyOfRow(imp.rows[k]))
         => ~(imp.outcomes[j] = "inserted" /\ imp.outcomes[k] = "inserted")
  /\ imp.duplicates = Count(imp.outcomes, {"file_duplicate", "store_duplicate"})

\* the import has returned for a batch of one row given twice, and the store
\* held no trade equal to the row when its first occurrence was checked
SameRowTwice ==
  /\ imp.status = "done"
  /\ resp.op = "import_trades_csv" /\ resp.status = 200
  /\ Len(imp.rows) = 2
  /\ imp.rows[1] = imp.rows[2]
  /\ imp.outcomes[1] # "store_duplicate"

\* C9 as stated: a row with the key of an earlier row of the batch is skipped
\* and counted in skippedCount, at most one trade is inserted per key, and a
\* batch of the same not-yet-stored row twice returns insertedCount = 1 and
\* skippedCount = 1.
C9_SameRowTwiceInsertsOnce ==
  /\ InFileDedupe
  /\ SameRowTwice =>
       /\ Val(resp.data).insertedCount = 1
       /\ Val(resp.data).skippedCount = 1

\* C9 amended: as stated, except that the batch of the same not-yet-stored row
\* twice returns skippedCount = 1 and insertedCount + failedCount = 1, with
\* insertedCount = 1 exactly when the first occurrence was inserted (and
\* failedCount = 1 when processing it raised).
C9_SameRowTwiceSkipsOnce ==
  /\ InFileDedupe
  /\ SameRowTwice =>
       /\ Val(resp.data).skippedCount = 1
       /\ Val(resp.data).insertedCount + Val(resp.data).failedCount = 1
       /\ Val(resp.data).insertedCount = 1 <=> imp.outcomes[1] = "inserted"
       /\ Val(resp.data).insertedCount = Cardinality(trades \ imp.before)

C9_Witness ==
  /\ SameRowTwice
  /\ imp.outcomes = <<"failed", "file_duplicate">>
  /\ _parse_csv_timestamp(imp.rows[1].entry_time).exc = "ok"
  /\ Val(resp.data).skippedCount = 1

\* the import has returned for a batch of one row that an earlier import of the
\* same user inserted as a trade the store still held when this import began
ReimportedRow ==
  /\ imp.status = "done"
  /\ resp.op = "import_trades_csv" /\ resp.status = 200
  /\ Len(imp.rows) = 1
  /\ \E h \in imp.prior :
       /\ h.user = imp.user
       /\ h.row = imp.rows[1]
       /\ h.id \in {t.id : t \in imp.before}

\* C10: importing again a row that an earlier import of the same user inserted
\* inserts nothing, leaves the stored trades as they were and returns
\* insertedCount = 0 and skippedCount = 1, whether or not the row has time
\* strings.
C10_ReimportIsIdempotent ==
  ReimportedRow =>
    /\ trades = imp.before
    /\ Val(resp.data).insertedCount = 0
    /\ Val(resp.data).skippedCount = 1

\* the last response is that of the import, returned with its counts
ImportReturned ==
  /\ imp.status = "done"
  /\ resp.op = "import_trades_csv" /\ resp.status = 200

\* a time string of the row is in neither format
Unparseable(row) ==
  \/ IsSome(row.entry_time) /\ Val(row.entry_time).fmt = "other"
  \/ IsSome(row.exit_time) /\ Val(row.exit_time).fmt = "other"

\* C11: a row whose processing raises is counted in failedCount and inserts
\* no trade, the rows after it are still processed, and the request returns
\* the counts.
C11_RowFailureIsolated ==
  /\ \A k \in DOMAIN imp.outcomes :
       (/\ Unparseable(imp.rows[k])
        /\ \A j \in 1..(k - 1) : KeyOfRow(imp.rows[j]) # KeyOfRow(imp.rows[k]))
         => imp.outcomes[k] = "failed"
  /\ imp.failed = Count(imp.outcomes, {"failed"})
  /\ Cardinality(trades \ imp.before) = Count(imp.outcomes, {"inserted"})
  /\ imp.status = "done" => Len(imp.outcomes) = Len(imp.rows)
  /\ ImportReturned =>
       /\ Val(resp.data).failedCount = Count(imp.outcomes, {"failed"})
       /\ Val(resp.data).insertedCount = Count(imp.outcomes, {"inserted"})

C11_Witness ==
  /\ ImportReturned
  /\ Len(imp.rows) = 2
  /\ Unparseable(imp.rows[1])
  /\ imp.outcomes = <<"failed", "inserted">>
  /\ Val(resp.data).failedCount = 1

\* the account named by the import is one of the importing user
OwnAccount ==
  ~IsSome(imp.account_id)
    \/ \E a \in Accounts : a.id = Val(imp.account_id) /\ a.user_id = imp.user

\* C12: an import that names an account of another user fails as a whole before
\* any row is processed: it inserts no trade and returns no counts.
C12_ForeignAccountRejected ==
  (imp.n > 0 /\ ~OwnAccount) =>
    /\ imp.status = "rejected"
    /\ imp.outcomes = <<>>
    /\ trades = imp.before
    /\ resp.op = "import_trades_csv" => (resp.status # 200 /\ resp.data = None)

C12_Witness ==
  /\ imp.status = "rejected"
  /\ imp.account_id = Some("a2") /\ imp.user = "u1"
  /\ imp.rows # <<>>
  /\ trades # {}
  /\ resp.op = "import_trades_csv" /\ resp.status = 400


(***************************************************************************)
(* The month calendar.  Dates are <<year, month, day>> in UTC; the store   *)
(* renders timestamps in UTC, so the first ten characters of a taken_at    *)
(* string are its UTC date.  pnl is in thousandths.                        *)
(***************************************************************************)
IsLeap(y) == y % 4 = 0 /\ (y % 100 # 0 \/ y % 400 = 0)

ThirtyDayMonths == {4, 6, 9, 11}

DaysInMonth(y, m) ==
  IF m = 2 THEN (IF IsLeap(y) THEN 29 ELSE 28)
  ELSE IF m \in ThirtyDayMonths THEN 30 ELSE 31

\* datetime(y, m, 1, tzinfo=timezone.utc) for y >= 2025
RECURSIVE UtcMonthStart(_, _)
UtcMonthStart(y, m) ==
  IF y = 2025 /\ m = 1 THEN 0
  ELSE IF m = 1 THEN UtcMonthStart(y - 1, 12) + 31 * Day
  ELSE UtcMonthStart(y, m - 1) + DaysInMonth(y, m - 1) * Day

RECURSIVE DateFrom(_, _, _)
DateFrom(y, m, days) ==
  IF days < DaysInMonth(y, m) THEN <<y, m, days + 1>>
  ELSE IF m = 12 THEN DateFrom(y + 1, 1, days - 31)
  ELSE DateFrom(y, m + 1, days - DaysInMonth(y, m))

\* str(taken_at)[:10]
IsoDate(t) == DateFrom(2025, 1, t \div Day)

\* the order of "YYYY-MM-DD" strings
DateBefore(a, b) ==
  \/ a[1] < b[1]
  \/ a[1] = b[1] /\ a[2] < b[2]
  \/ a[1] = b[1] /\ a[2] = b[2] /\ a[3] < b[3]

\* mutant: December ends at the first of January of the same year
MonthEnd_SameYear(year, month) ==
  IF month = 12 THEN UtcMonthStart(year, 1) ELSE UtcMonthStart(year, month + 1)

\* the exclusive end of the month
MonthEnd(year, month) ==
  IF month = 12 THEN UtcMonthStart(year + 1, 1) ELSE UtcMonthStart(year, month + 1)

\* float(r.get("pnl") or 0.0)
PnlValue(r) == IF IsSome(r.pnl) THEN Val(r.pnl) ELSE 0

RECURSIVE SumPnl(_)
SumPnl(rows) ==
  IF rows = {} THEN 0
  ELSE LET r == CHOOSE x \in rows : TRUE IN PnlValue(r) + SumPnl(rows \ {r})

RECURSIVE SortedByDate(_)
SortedByDate(buckets) ==
  IF buckets = {} THEN <<>>
  ELSE LET b == CHOOSE x \in buckets :
                  \A y \in buckets : y = x \/ DateBefore(x.date, y.date)
       IN <<b>> \o SortedByDate(buckets \ {b})

fetch_trade_calendar(user_id, year, month, filters) ==
  LET start == UtcMonthStart(year, month)
      end == MonthEnd(year, month)
      preds == FilterPreds(filters)
      rows == {r \in trades :
                 /\ r.user_id = user_id
                 /\ IsSome(r.taken_at)
                 /\ Val(r.taken_at) >= start /\ Val(r.taken_at) < end
                 /\ \A k \in DOMAIN preds : RowMatches(r, preds[k])}
      days == {IsoDate(Val(r.taken_at)) : r \in rows}
      bucket(d) == LET of == {r \in rows : IsoDate(Val(r.taken_at)) = d}
                   IN [date |-> d, pnl |-> SumPnl(of), trade_count |-> Cardinality(of)]
  IN SortedByDate({bucket(d) : d \in days})

\* the query is kept beside the days of the response
get_trade_calendar_response(tok, year, month, filters) ==
  LET creds == Creds(tok, None)
      auth == verify_supabase_token(tok)
  IN IF ~IsSome(auth) THEN Unauthorized("get_trade_calendar", creds)
     ELSE Response("get_trade_calendar", creds, auth, None, 200, "",
                   Some([days |-> fetch_trade_calendar(Val(auth), year, month, filters),
                         year |-> year, month |-> month, filters |-> filters]))

\* GET /trades/calendar
get_trade_calendar(Toks, Years, Months, Filters) ==
  /\ \E tok \in Toks, year \in Years, month \in Months, f \in Filters :
       resp' = get_trade_calendar_response(tok, year, month, f)
  /\ UNCHANGED <<storeVars, clock, walk, imp, reqs>>

(***************************************************************************)
(* Specification of the calendar over stores with trades on both sides of  *)
(* the month and year boundaries.                                          *)
(***************************************************************************)
NCalTrades == 3

\* 2025-11-30T23:59:59Z, 2025-12-01T00:00:00Z, 2025-12-15T10:00:00Z,
\* 2025-12-31T23:59:59Z, 2026-01-01T00:00:00Z
CalTimes == {334 * Day - 1, 334 * Day, 348 * Day + 10 * Hour, 365 * Day - 1, 365 * Day}

CalPnls == {<<Some(0 - 50000), Some("loss")>>, <<Some(25000), Some("win")>>, <<None, None>>}

CalRows ==
  {[BlankTrade EXCEPT !.sort_at = Some(1), !.taken_at = Some(t), !.pnl = Some(100000),
                      !.outcome = Some("win")] : t \in CalTimes}
  \cup {[BlankTrade EXCEPT !.sort_at = Some(1), !.taken_at = Some(348 * Day + 10 * Hour),
                           !.pnl = pn[1], !.outcome = pn[2]] : pn \in CalPnls}
  \cup {[BlankTrade EXCEPT !.sort_at = Some(1), !.taken_at = Some(348 * Day + 10 * Hour),
                           !.pnl = Some(25000), !.outcome = Some("win"), !.user_id = "u2"]}

CalFilters == {NoFilters, [NoFilters EXCEPT !.outcome = <<"win">>]}

InitCal ==
  /\ \E f \in [1..NCalTrades -> CalRows] :
       trades = {[f[i] EXCEPT !.id = i] : i \in 1..NCalTrades}
  /\ nextId = NCalTrades + 1
  /\ InitRest

CalTokens == {[sub |-> "u1", valid |-> TRUE], [sub |-> "u1", valid |-> FALSE]}

CalYears == {2025, 2026}

CalMonths == {1, 11, 12}

NextCal == get_trade_calendar(CalTokens, CalYears, CalMonths, CalFilters)

SpecCal == InitCal /\ [][NextCal]_vars

\* the owned trades of the month that satisfy the filters, by UTC date
CalendarAnswered == resp.op = "get_trade_calendar" /\ resp.status = 200

MonthTrades ==
  {t \in trades :
     /\ t.user_id = Val(resp.acting)
     /\ IsSome(t.taken_at)
     /\ IsoDate(Val(t.taken_at))[1] = Val(resp.data).year
     /\ IsoDate(Val(t.taken_at))[2] = Val(resp.data).month
     /\ Selects(Val(resp.data).filters, t)}

RECURSIVE Total(_)
Total(S) ==
  IF S = {} THEN 0
  ELSE LET t == CHOOSE x \in S : TRUE
       IN (IF IsSome(t.pnl) THEN Val(t.pnl) ELSE 0) + Total(S \ {t})

\* C13: the calendar of a month has one bucket for each UTC date of the month
\* on which the user has a matching trade and no other bucket; the pnl of a
\* bucket is the sum of the pnl of the trades of its date and its trade_count
\* is their number.
C13_CalendarBuckets ==
  CalendarAnswered =>
    LET days == Val(resp.data).days
    IN /\ \A i, j \in DOMAIN days : days[i].date = days[j].date => i = j
       /\ {days[i].date : i \in DOMAIN days}
            = {IsoDate(Val(t.taken_at)) : t \in MonthTrades}
       /\ \A i \in DOMAIN days :
            LET of == {t \in MonthTrades : IsoDate(Val(t.taken_at)) = days[i].date}
            IN /\ of # {}
               /\ days[i].pnl = Total(of)
               /\ days[i].trade_count = Cardinality(of)

C13_Witness ==
  /\ CalendarAnswered
  /\ Val(resp.data).year = 2025 /\ Val(resp.data).month = 12
  /\ \E i \in DOMAIN Val(resp.data).days :
       /\ Val(resp.data).days[i].date = <<2025, 12, 15>>
       /\ Val(resp.data).days[i].pnl = 75000
       /\ Val(resp.data).days[i].trade_count = 3

\* a December query on a store with a trade on 31 December
C13_DecemberWitness ==
  /\ CalendarAnswered
  /\ Val(resp.data).month = 12
  /\ \E i \in DOMAIN Val(resp.data).days :
       Val(resp.data).days[i].date = <<2025, 12, 31>>


(***************************************************************************)
(* Specification of the session inference over instants of a winter day,   *)
(* a summer day and the two days on which Los Angeles changes its offset.  *)
(***************************************************************************)
\* 2 January, 9 March, 1 July and 2 November 2025
SessionDays == {1, 67, 181, 305}

\* every half hour of the day and the second before it
SessionSeconds == {k * 1800 : k \in 0..47} \cup {k * 1800 - 1 : k \in 1..48}

SessionInputs ==
  {[t |-> d * Day + sec, aware |-> a] : d \in SessionDays, sec \in SessionSeconds, a \in BOOLEAN}

\* a call of infer_session_from_entry, its argument kept beside its result
infer_session(Datetimes) ==
  /\ \E entry_at \in Datetimes :
       resp' = Response("infer_session_from_entry", NoResp.creds, None, None, 0, "",
                        Some([entry_at |-> entry_at,
                              session |-> infer_session_from_entry(entry_at)]))
  /\ UNCHANGED <<storeVars, clock, walk, imp, reqs>>

InitSession ==
  /\ trades = {}
  /\ nextId = 1
  /\ InitRest

NextSession == infer_session(SessionInputs)

SpecSession == InitSession /\ [][NextSession]_vars

\* the seconds since midnight on the Los Angeles wall clock
WallClock(t) == (t + LaUtcOffset(t)) % Day

LabelOfWallClock(w) ==
  IF w < 6 * Hour + 1800 THEN "London"
  ELSE IF w < 13 * Hour THEN "NY"
  ELSE IF w < 15 * Hour THEN "Break"
  ELSE "Asia"

SessionInferred == resp.op = "infer_session_from_entry" /\ Val(resp.data).entry_at.aware

\* C14: for a timezone-aware instant the label is that of the interval of the
\* Los Angeles wall-clock time: London [00:00, 06:30), NY [06:30, 13:00),
\* Break [13:00, 15:00), Asia [15:00, 24:00).
C14_SessionByWallClock ==
  SessionInferred =>
    /\ Val(resp.data).session \in Sessions
    /\ Val(resp.data).session = LabelOfWallClock(WallClock(Val(resp.data).entry_at.t))

\* 06:30:00 on 1 July, when Los Angeles is at UTC-7
C14_Witness ==
  /\ SessionInferred
  /\ Val(resp.data).entry_at.t = 181 * Day + 13 * Hour + 1800
  /\ Val(resp.data).session = "NY"

(***************************************************************************)
(* The cursor codec at the level of text.  A str is the sequence of its    *)
(* code points, a bytes value the sequence of its bytes (0..255).  The     *)
(* listing above works on the payload of a token; here the token is the    *)
(* text the client holds, as CPython's json and base64 write and read it.  *)
(***************************************************************************)
RECURSIVE Concat(_)
Concat(ss) == IF ss = <<>> THEN <<>> ELSE Head(ss) \o Concat(Tail(ss))

\* a lower-case hexadecimal digit
HexDigit(d) == IF d < 10 THEN 48 + d ELSE 87 + d

\* \uXXXX
UEscape(n) ==
  <<92, 117, HexDigit(n \div 4096), HexDigit((n \div 256) % 16),
    HexDigit((n \div 16) % 16), HexDigit(n % 16)>>

\* mutant: json.dumps writes every character as it is
JsonEscape_Raw(cp) == <<cp>>

\* json.dumps of one character of a string, ensure_ascii being on
JsonEscape(cp) ==
  CASE cp = 34 -> <<92, 34>>
    [] cp = 92 -> <<92, 92>>
    [] cp = 10 -> <<92, 110>>
    [] cp = 13 -> <<92, 114>>
    [] cp = 9 -> <<92, 116>>
    [] cp = 8 -> <<92, 98>>
    [] cp = 12 -> <<92, 102>>
    [] cp > 65535 -> UEscape(55296 + ((cp - 65536) \div 1024))
                       \o UEscape(56320 + ((cp - 65536) % 1024))
    [] cp >= 32 /\ cp <= 126 -> <<cp>>
    [] OTHER -> UEscape(cp)

JsonString(s) == <<34>> \o Concat([k \in DOMAIN s |-> JsonEscape(s[k])]) \o <<34>>

\* json.dumps({"sort_at": ..., "id": ...}) with the default separators
json_dumps(payload) ==
  <<123, 34, 115, 111, 114, 116, 95, 97, 116, 34, 58, 32>>   \* {"sort_at":
    \o JsonString(payload.sort_at)
    \o <<44, 32, 34, 105, 100, 34, 58, 32>>                  \* , "id":
    \o JsonString(payload.id)
    \o <<125>>                                               \* }

\* the least element of a non-empty set of numbers
Least(S) == CHOOSE x \in S : \A y \in S : x <= y

\* str.encode(): UTF-8
Utf8Encode(s) ==
  IF \A k \in DOMAIN s : s[k] < 128 THEN s
  ELSE Concat([k \in DOMAIN s |->
    IF s[k] < 128 THEN <<s[k]>>
    ELSE IF s[k] < 2048 THEN <<192 + (s[k] \div 64), 128 + (s[k] % 64)>>
    ELSE IF s[k] < 65536
      THEN <<224 + (s[k] \div 4096), 128 + ((s[k] \div 64) % 64), 128 + (s[k] % 64)>>
    ELSE <<240 + (s[k] \div 262144), 128 + ((s[k] \div 4096) % 64),
           128 + ((s[k] \div 64) % 64), 128 + (s[k] % 64)>>])

\* the character of a six-bit value in the URL-safe alphabet
B64Char(v) ==
  IF v < 26 THEN 65 + v
  ELSE IF v < 52 THEN 71 + v
  ELSE IF v < 62 THEN v - 4
  ELSE IF v = 62 THEN 45 ELSE 95

\* four characters for every three bytes, = filling the last group
urlsafe_b64encode(bytes) ==
  LET n == Len(bytes)
      byte(j) == IF j <= n THEN bytes[j] ELSE 0
      char(i) ==
        LET g == 3 * ((i - 1) \div 4)
            r == (i - 1) % 4
        IN CASE r = 0 -> B64Char(byte(g + 1) \div 4)
             [] r = 1 -> B64Char((byte(g + 1) % 4) * 16 + (byte(g + 2) \div 16))
             [] r = 2 -> IF g + 2 > n THEN 61
                         ELSE B64Char((byte(g + 2) % 16) * 4 + (byte(g + 3) \div 64))
             [] OTHER -> IF g + 3 > n THEN 61 ELSE B64Char(byte(g + 3) % 64)
  IN [i \in 1..(4 * ((n + 2) \div 3)) |-> char(i)]

\* the six-bit value of a character, 64 for a character outside the alphabet;
\* urlsafe_b64decode maps - and _ to + and / and keeps + and /
B64Value(c) ==
  IF c >= 65 /\ c <= 90 THEN c - 65
  ELSE IF c >= 97 /\ c <= 122 THEN c - 71
  ELSE IF c >= 48 /\ c <= 57 THEN c + 4
  ELSE IF c = 45 \/ c = 43 THEN 62
  ELSE IF c = 95 \/ c = 47 THEN 63
  ELSE 64

IsB64Data(c) == c # 61 /\ B64Value(c) < 64

\* binascii.a2b_base64 without strict mode: characters outside the alphabet
\* are skipped; an = is skipped too unless it completes the padding of a group
\* of two or three data characters, and then it ends the input; data that
\* stops inside a group of four is an error
urlsafe_b64decode(text) ==
  LET n == Len(text)
      quad_pos(p) == Cardinality({j \in 1..(p - 1) : IsB64Data(text[j])}) % 4
      ends(p) ==
        /\ text[p] = 61
        /\ \/ quad_pos(p) = 3
           \/ /\ quad_pos(p) = 2
              /\ \E j \in 1..(p - 1) :
                   text[j] = 61 /\ \A i \in (j + 1)..(p - 1) : ~IsB64Data(text[i])
      stops == {p \in 1..n : ends(p)}
      end == IF stops = {} THEN n + 1 ELSE Least(stops)
      data == SelectSeq(SubSeq(text, 1, end - 1), IsB64Data)
      v(j) == B64Value(data[j])
      byte(i) ==
        LET g == 4 * ((i - 1) \div 3)
            r == (i - 1) % 3
        IN CASE r = 0 -> v(g + 1) * 4 + (v(g + 2) \div 16)
             [] r = 1 -> (v(g + 2) % 16) * 16 + (v(g + 3) \div 4)
             [] OTHER -> (v(g + 3) % 4) * 64 + v(g + 4)
  IN [ok |-> stops # {} \/ Len(data) % 4 = 0,
      bytes |-> [i \in 1..((Len(data) * 3) \div 4) |-> byte(i)]]

\* bytes.decode(): strict UTF-8, from one byte above 127 to the next
RECURSIVE Utf8Decode(_, _, _)
Utf8Decode(b, k, out) ==
  LET n == Len(b)
      high == {j \in k..n : b[j] >= 128}
      h == Least(high)
      done == out \o SubSeq(b, k, h - 1)
      cont(j) == j <= n /\ b[j] >= 128 /\ b[j] <= 191
      Bad == [ok |-> FALSE, text |-> <<>>]
  IN IF high = {} THEN [ok |-> TRUE, text |-> out \o SubSeq(b, k, n)]
     ELSE IF b[h] >= 194 /\ b[h] <= 223
       THEN IF cont(h + 1)
              THEN Utf8Decode(b, h + 2, Append(done, (b[h] - 192) * 64 + (b[h + 1] - 128)))
              ELSE Bad
     ELSE IF b[h] >= 224 /\ b[h] <= 239
       THEN IF cont(h + 1) /\ cont(h + 2)
                 /\ (b[h] = 224 => b[h + 1] >= 160)
                 /\ (b[h] = 237 => b[h + 1] <= 159)
              THEN Utf8Decode(b, h + 3,
                     Append(done, (b[h] - 224) * 4096 + (b[h + 1] - 128) * 64 + (b[h + 2] - 128)))
              ELSE Bad
     ELSE IF b[h] >= 240 /\ b[h] <= 244
       THEN IF cont(h + 1) /\ cont(h + 2) /\ cont(h + 3)
                 /\ (b[h] = 240 => b[h + 1] >= 144)
                 /\ (b[h] = 244 => b[h + 1] <= 143)
              THEN Utf8Decode(b, h + 4,
                     Append(done, (b[h] - 240) * 262144 + (b[h + 1] - 128) * 4096
                                    + (b[h + 2] - 128) * 64 + (b[h + 3] - 128)))
              ELSE Bad
     ELSE Bad

(***************************************************************************)
(* json.loads.  A JSON value is [t, v]: t is its kind and v the code       *)
(* points of a string, the items of an array, the key/value pairs of an    *)
(* object in the order of the text, <<0>> for a number that is zero and    *)
(* <<1>> for any other number.                                             *)
(***************************************************************************)
JVal(t, v) == [t |-> t, v |-> v]

JFail == [ok |-> FALSE, val |-> JVal("null", <<>>), pos |-> 0]

JOk(val, pos) == [ok |-> TRUE, val |-> val, pos |-> pos]

IsWs(c) == c = 32 \/ c = 9 \/ c = 10 \/ c = 13

IsDigit(c) == c >= 48 /\ c <= 57

\* the first index from k on that holds no white space
SkipWs(s, k) ==
  Least({j \in k..(Len(s) + 1) : j = Len(s) + 1 \/ ~IsWs(s[j])})

\* the first index from k on that holds no digit
SkipDigits(s, k) ==
  Least({j \in k..(Len(s) + 1) : j = Len(s) + 1 \/ ~IsDigit(s[j])})

\* the value of a hexadecimal digit, 16 for any other character
HexValue(c) ==
  IF IsDigit(c) THEN c - 48
  ELSE IF c >= 97 /\ c <= 102 THEN c - 87
  ELSE IF c >= 65 /\ c <= 70 THEN c - 55
  ELSE 16

\* the number written by the four characters from k, or -1
Hex4(s, k) ==
  IF k + 3 <= Len(s) /\ \A j \in k..(k + 3) : HexValue(s[j]) < 16
    THEN HexValue(s[k]) * 4096 + HexValue(s[k + 1]) * 256
           + HexValue(s[k + 2]) * 16 + HexValue(s[k + 3])
    ELSE 0 - 1

\* the character a one-letter escape stands for, or -1
SimpleEscape(e) ==
  CASE e = 34 -> 34 [] e = 92 -> 92 [] e = 47 -> 47 [] e = 98 -> 8
    [] e = 102 -> 12 [] e = 110 -> 10 [] e = 114 -> 13 [] e = 116 -> 9
    [] OTHER -> 0 - 1

\* scanstring from k, inside the quotes, out being the characters read so
\* far: up to the closing quote, escapes decoded, control characters refused;
\* an escaped high surrogate followed by an escaped low surrogate is one
\* character
RECURSIVE ScanString(_, _, _)
ScanString(s, k, out) ==
  LET special == {j \in k..Len(s) : s[j] = 34 \/ s[j] = 92 \/ s[j] < 32}
      h == Least(special)
      done == out \o SubSeq(s, k, h - 1)
  IN IF special = {} THEN JFail
     ELSE IF s[h] = 34 THEN JOk(JVal("str", done), h + 1)
     ELSE IF s[h] < 32 THEN JFail
     ELSE IF h + 1 > Len(s) THEN JFail
     ELSE IF s[h + 1] = 117
       THEN LET u == Hex4(s, h + 2)
                u2 == IF h + 7 <= Len(s) /\ s[h + 6] = 92 /\ s[h + 7] = 117
                        THEN Hex4(s, h + 8) ELSE 0 - 1
            IN IF u < 0 THEN JFail
               ELSE IF u >= 55296 /\ u <= 56319 /\ u2 >= 56320 /\ u2 <= 57343
                 THEN ScanString(s, h + 12,
                        Append(done, 65536 + (u - 55296) * 1024 + (u2 - 56320)))
               ELSE ScanString(s, h + 6, Append(done, u))
     ELSE IF SimpleEscape(s[h + 1]) < 0 THEN JFail
     ELSE ScanString(s, h + 2, Append(done, SimpleEscape(s[h + 1])))

\* the text from k begins with lit
Match(s, k, lit) ==
  k + Len(lit) - 1 <= Len(s) /\ SubSeq(s, k, k + Len(lit) - 1) = lit

\* -?(0|[1-9][0-9]*)(\.[0-9]+)?([eE][-+]?[0-9]+)?
MatchNumber(s, k) ==
  LET n == Len(s)
      i0 == IF s[k] = 45 THEN k + 1 ELSE k
      int_ok == i0 <= n /\ IsDigit(s[i0])
      i1 == IF s[i0] = 48 THEN i0 + 1 ELSE SkipDigits(s, i0)
      i2 == IF i1 + 1 <= n /\ s[i1] = 46 /\ IsDigit(s[i1 + 1])
              THEN SkipDigits(s, i1 + 1) ELSE i1
      e0 == IF i2 + 1 <= n /\ (s[i2 + 1] = 43 \/ s[i2 + 1] = 45) THEN i2 + 2 ELSE i2 + 1
      i3 == IF i2 <= n /\ (s[i2] = 101 \/ s[i2] = 69) /\ e0 <= n /\ IsDigit(s[e0])
              THEN SkipDigits(s, e0) ELSE i2
      zero == \A j \in i0..(i2 - 1) : IsDigit(s[j]) => s[j] = 48
  IN IF ~int_ok THEN JFail
     ELSE JOk(JVal("num", IF zero THEN <<0>> ELSE <<1>>), i3)

RECURSIVE ScanOnce(_, _)
RECURSIVE ParseObject(_, _, _)
RECURSIVE ParseArray(_, _, _)

\* the members of an object from the first key
ParseObject(s, k, pairs) ==
  IF k > Len(s) \/ s[k] # 34 THEN JFail
  ELSE LET key == ScanString(s, k + 1, <<>>)
       IN IF ~key.ok THEN JFail
          ELSE LET c == SkipWs(s, key.pos)
               IN IF c > Len(s) \/ s[c] # 58 THEN JFail
                  ELSE LET val == ScanOnce(s, SkipWs(s, c + 1))
                       IN IF ~val.ok THEN JFail
                          ELSE LET e == SkipWs(s, val.pos)
                                   all == Append(pairs, <<key.val.v, val.val>>)
                               IN IF e <= Len(s) /\ s[e] = 125
                                    THEN JOk(JVal("obj", all), e + 1)
                                  ELSE IF e > Len(s) \/ s[e] # 44 THEN JFail
                                  ELSE ParseObject(s, SkipWs(s, e + 1), all)

\* the items of an array from the first item
ParseArray(s, k, items) ==
  LET val == ScanOnce(s, k)
  IN IF ~val.ok THEN JFail
     ELSE LET e == SkipWs(s, val.pos)
              all == Append(items, val.val)
          IN IF e <= Len(s) /\ s[e] = 93 THEN JOk(JVal("arr", all), e + 1)
             ELSE IF e > Len(s) \/ s[e] # 44 THEN JFail
             ELSE ParseArray(s, SkipWs(s, e + 1), all)

\* one JSON term from k
ScanOnce(s, k) ==
  IF k > Len(s) THEN JFail
  ELSE IF s[k] = 34 THEN ScanString(s, k + 1, <<>>)
  ELSE IF s[k] = 123
    THEN LET f == SkipWs(s, k + 1)
         IN IF f <= Len(s) /\ s[f] = 125 THEN JOk(JVal("obj", <<>>), f + 1)
            ELSE ParseObject(s, f, <<>>)
  ELSE IF s[k] = 91
    THEN LET f == SkipWs(s, k + 1)
         IN IF f <= Len(s) /\ s[f] = 93 THEN JOk(JVal("arr", <<>>), f + 1)
            ELSE ParseArray(s, f, <<>>)
  ELSE IF Match(s, k, <<110, 117, 108, 108>>) THEN JOk(JVal("null", <<>>), k + 4)
  ELSE IF Match(s, k, <<116, 114, 117, 101>>) THEN JOk(JVal("true", <<>>), k + 4)
  ELSE IF Match(s, k, <<102, 97, 108, 115, 101>>) THEN JOk(JVal("false", <<>>), k + 5)
  ELSE IF Match(s, k, <<78, 97, 78>>) THEN JOk(JVal("num", <<1>>), k + 3)
  ELSE IF Match(s, k, <<73, 110, 102, 105, 110, 105, 116, 121>>)
    THEN JOk(JVal("num", <<1>>), k + 8)
  ELSE IF Match(s, k, <<45, 73, 110, 102, 105, 110, 105, 116, 121>>)
    THEN JOk(JVal("num", <<1>>), k + 9)
  ELSE MatchNumber(s, k)

\* json.loads: one term, white space around it, and nothing else
json_loads(s) ==
  LET r == ScanOnce(s, SkipWs(s, 1))
  IN IF s # <<>> /\ s[1] = 65279 THEN JFail
     ELSE IF r.ok /\ SkipWs(s, r.pos) = Len(s) + 1 THEN r
     ELSE JFail

\* Python truthiness of a JSON value
JTruthy(x) ==
  CASE x.t = "true" -> TRUE
    [] x.t = "false" -> FALSE
    [] x.t = "null" -> FALSE
    [] x.t = "num" -> x.v = <<1>>
    [] OTHER -> x.v # <<>>

\* dict.get on the pairs of an object: the last pair with the key, or null
RECURSIVE DictGet(_, _)
DictGet(pairs, key) ==
  IF pairs = <<>> THEN JVal("null", <<>>)
  ELSE IF pairs[Len(pairs)][1] = key THEN pairs[Len(pairs)][2]
  ELSE DictGet(SubSeq(pairs, 1, Len(pairs) - 1), key)

KeySortAt == <<115, 111, 114, 116, 95, 97, 116>>

KeyId == <<105, 100>>

InvalidCursor ==
  [ok |-> FALSE, sort_at |-> JVal("null", <<>>), id |-> JVal("null", <<>>), keys |-> {}]

\* _encode_cursor on text
_encode_cursor_text(sort_at_iso, trade_id) ==
  urlsafe_b64encode(Utf8Encode(json_dumps([sort_at |-> sort_at_iso, id |-> trade_id])))

\* _decode_cursor on text: the payload dictionary, or HTTP 400 invalid_cursor
\* for any exception
_decode_cursor_text(cursor) ==
  LET raw == urlsafe_b64decode(Utf8Encode(cursor))
      text == IF raw.ok THEN Utf8Decode(raw.bytes, 1, <<>>) ELSE [ok |-> FALSE, text |-> <<>>]
      payload == IF text.ok THEN json_loads(text.text) ELSE JFail
  IN IF ~payload.ok THEN InvalidCursor
     ELSE IF payload.val.t # "obj" THEN InvalidCursor
     ELSE IF ~JTruthy(DictGet(payload.val.v, KeySortAt))
               \/ ~JTruthy(DictGet(payload.val.v, KeyId))
       THEN InvalidCursor
     ELSE [ok |-> TRUE,
           sort_at |-> DictGet(payload.val.v, KeySortAt),
           id |-> DictGet(payload.val.v, KeyId),
           keys |-> {payload.val.v[j][1] : j \in DOMAIN payload.val.v}]

(***************************************************************************)
(* Specification of the codec: round trips, and the decoding of tokens     *)
(* that were tampered with, truncated, or made from other JSON texts.      *)
(***************************************************************************)
\* "a", "ab", a quote, a backslash, a line feed, U+00E9, U+1F600, a lone high
\* surrogate, and a high surrogate followed by a low surrogate
CodecStrings ==
  {<<97>>, <<97, 98>>, <<34>>, <<92>>, <<10>>, <<233>>, <<128512>>, <<55357>>,
   <<55357, 56832>>}

\* the (sort_at, id) pairs of the cursors that are tampered with or truncated
ValidCursors == {<<<<97>>, <<98>>>>, <<<<97, 98>>, <<98>>>>}

\* the URL-safe alphabet, = and !
TamperChars == (65..90) \cup (97..122) \cup (48..57) \cup {45, 95, 61, 33}

ShapedTexts ==
  {<<123, 34, 115, 111, 114, 116, 95, 97, 116, 34, 58, 32, 34, 97, 34, 44, 32, 34, 105,
     100, 34, 58, 32, 34, 98, 34, 44, 32, 34, 120, 34, 58, 32, 49, 125>>,
       \* {"sort_at": "a", "id": "b", "x": 1}
   <<123, 34, 115, 111, 114, 116, 95, 97, 116, 34, 58, 32, 49, 44, 32, 34, 105, 100, 34,
     58, 32, 50, 125>>,
       \* {"sort_at": 1, "id": 2}
   <<123, 34, 115, 111, 114, 116, 95, 97, 116, 34, 58, 32, 34, 97, 34, 125>>,
       \* {"sort_at": "a"}
   <<123, 34, 105, 100, 34, 58, 32, 34, 98, 34, 125>>,
       \* {"id": "b"}
   <<91, 34, 97, 34, 44, 32, 34, 98, 34, 93>>,
       \* ["a", "b"]
   <<49>>,
       \* 1
   <<34, 97, 34>>,
       \* "a"
   <<110, 117, 108, 108>>,
       \* null
   <<123, 34, 115, 111, 114, 116, 95, 97, 116, 34, 58, 32, 34, 34, 44, 32, 34, 105, 100,
     34, 58, 32, 34, 98, 34, 125>>,
       \* {"sort_at": "", "id": "b"}
   <<123, 34, 115, 111, 114, 116, 95, 97, 116, 34, 58, 32, 91, 34, 97, 34, 93, 44, 32, 34,
     105, 100, 34, 58, 32, 116, 114, 117, 101, 125>>,
       \* {"sort_at": ["a"], "id": true}
   <<123, 34, 115, 111, 114, 116, 95, 97, 116, 34, 58, 32, 34, 97, 34, 44, 32, 34, 105,
     100, 34, 58, 32, 34, 98, 34, 125>>,
       \* {"sort_at": "a", "id": "b"}
   <<123, 32, 34, 105, 100, 34, 58, 34, 98, 34, 32, 44, 32, 34, 115, 111, 114, 116, 95,
     97, 116, 34, 58, 34, 97, 34, 32, 125>>,
       \* { "id":"b" , "sort_at":"a" }
   <<123, 34, 115, 111, 114, 116, 95, 97, 116, 34, 58, 32, 34, 97, 34, 44, 32, 34, 105,
     100, 34, 58, 32, 34, 98, 34, 44, 32, 34, 105, 100, 34, 58, 32, 34, 99, 34, 125>>,
       \* {"sort_at": "a", "id": "b", "id": "c"}
   <<123, 34, 115, 111, 114, 116, 95, 97, 116, 34, 58, 32, 34, 97, 34, 44, 32, 34, 105,
     100, 34, 58, 32, 48, 125>>}
       \* {"sort_at": "a", "id": 0}

\* a token to decode: how it was made and the pair it was made from
CursorInput(kind, sort_at, id, token) ==
  Response("cursor_input", NoResp.creds, None, None, 0, "",
           Some([kind |-> kind, sort_at |-> sort_at, id |-> id, token |-> token]))

\* the cursors of all pairs of strings
RoundTripInputs ==
  {CursorInput("round_trip", s, i, _encode_cursor_text(s, i)) :
     s \in CodecStrings, i \in CodecStrings}

\* a valid cursor with one character replaced by another
TamperedOf(c) ==
  LET token == _encode_cursor_text(c[1], c[2])
  IN {CursorInput("tampered", c[1], c[2], [token EXCEPT ![x[1]] = x[2]]) :
        x \in {y \in (DOMAIN token) \X TamperChars : token[y[1]] # y[2]}}

\* a valid cursor without its end
TruncatedOf(c) ==
  LET token == _encode_cursor_text(c[1], c[2])
  IN {CursorInput("truncated", c[1], c[2], SubSeq(token, 1, n)) :
        n \in 0..(Len(token) - 1)}

\* the base64url text of some other JSON text
ShapedInputs ==
  {CursorInput("shaped", <<>>, <<>>, urlsafe_b64encode(Utf8Encode(text))) :
     text \in ShapedTexts}

CodecInputs ==
  RoundTripInputs \cup UNION {TamperedOf(c) : c \in ValidCursors}
    \cup UNION {TruncatedOf(c) : c \in ValidCursors} \cup ShapedInputs

\* a call of _decode_cursor on the token, its result kept beside the input
decode_cursor ==
  /\ resp.op = "cursor_input"
  /\ resp' = [resp EXCEPT
       !.op = "_decode_cursor",
       !.data = Some([kind |-> Val(resp.data).kind, sort_at |-> Val(resp.data).sort_at,
                      id |-> Val(resp.data).id, token |-> Val(resp.data).token,
                      decoded |-> _decode_cursor_text(Val(resp.data).token)])]
  /\ UNCHANGED <<storeVars, clock, walk, imp, reqs>>

InitCodec ==
  /\ trades = {}
  /\ nextId = 1
  /\ images = {}
  /\ analyses = {}
  /\ objects = {}
  /\ clock = ClockStart
  /\ walk = IdleWalk
  /\ imp = NoImport
  /\ reqs = NoRequests
  /\ resp \in CodecInputs

NextCodec == decode_cursor

SpecCodec == InitCodec /\ [][NextCodec]_vars

CursorDecoded(kind) == resp.op = "_decode_cursor" /\ Val(resp.data).kind = kind

\* the result is the pair (s, i) and nothing else
DecodesTo(d, s, i) ==
  /\ d.ok
  /\ d.keys = {KeySortAt, KeyId}
  /\ d.sort_at = JVal("str", s)
  /\ d.id = JVal("str", i)

NoSurrogatePair(s) ==
  \A k \in 1..(Len(s) - 1) :
    ~(s[k] >= 55296 /\ s[k] <= 56319 /\ s[k + 1] >= 56320 /\ s[k + 1] <= 57343)

C16_TamperedOrTruncatedRejected ==
  (CursorDecoded("tampered") \/ CursorDecoded("truncated")) =>
    ~Val(resp.data).decoded.ok

\* every truncated cursor is rejected
TruncatedRejected == CursorDecoded("truncated") => ~Val(resp.data).decoded.ok

\* C17: a token is accepted only if it is the base64url text of a JSON object
\* with exactly the keys sort_at and id, both of them strings.
C17_OnlyTwoStringKeysAccepted ==
  (resp.op = "_decode_cursor" /\ Val(resp.data).decoded.ok) =>
    /\ Val(resp.data).decoded.keys = {KeySortAt, KeyId}
    /\ Val(resp.data).decoded.sort_at.t = "str"
    /\ Val(resp.data).decoded.id.t = "str"

(***************************************************************************)
(* _parse_csv_timestamp at the level of text.  A datetime in UTC is the    *)
(* number of days since 2025-01-01, the second of the day and the          *)
(* microsecond of the second.                                              *)
(***************************************************************************)
IsSpace(c) == c = 32 \/ (c >= 9 /\ c <= 13) \/ (c >= 28 /\ c <= 31)

\* str.strip()
StripText(s) ==
  LET inked == {j \in DOMAIN s : ~IsSpace(s[j])}
  IN IF inked = {} THEN <<>>
     ELSE SubSeq(s, Least(inked), Least({j \in inked : \A i \in inked : i <= j}))

\* the first index from k on that holds no white space
SkipSpace(s, k) ==
  Least({j \in k..(Len(s) + 1) : j = Len(s) + 1 \/ ~IsSpace(s[j])})

\* int() of the digits s[a..b]
RECURSIVE DigitsValue(_, _, _)
DigitsValue(s, a, b) ==
  IF b < a THEN 0 ELSE DigitsValue(s, a, b - 1) * 10 + (s[b] - 48)

\* date.toordinal(): the days from 0001-01-01, that day being 1
DaysBeforeYear(y) ==
  365 * (y - 1) + ((y - 1) \div 4) - ((y - 1) \div 100) + ((y - 1) \div 400)

RECURSIVE DaysBeforeMonth(_, _)
DaysBeforeMonth(y, m) ==
  IF m = 1 THEN 0 ELSE DaysBeforeMonth(y, m - 1) + DaysInMonth(y, m - 1)

ToOrdinal(y, m, d) == DaysBeforeYear(y) + DaysBeforeMonth(y, m) + d

\* 9999-12-31
MaxOrdinal == ToOrdinal(9999, 12, 31)

StrptimeFail == [ok |-> FALSE, ordinal |-> 0, sec |-> 0, off |-> 0, off_us |-> 0]

\* the %z field from k to the end of the text: sign, hours, minutes, and
\* optionally seconds and a fraction, with colons throughout or nowhere; or Z.
\* The result is the offset in seconds and microseconds, sign applied.
ParseOffset(s, k) ==
  LET n == Len(s)
      digit(j) == j <= n /\ IsDigit(s[j])
      low(j) == j <= n /\ s[j] >= 48 /\ s[j] <= 53
      c1 == k + 3 <= n /\ s[k + 3] = 58
      m0 == IF c1 THEN k + 4 ELSE k + 3
      c2 == m0 + 2 <= n /\ s[m0 + 2] = 58
      s0 == IF c2 THEN m0 + 3 ELSE m0 + 2
      has_sec == low(s0) /\ digit(s0 + 1)
      f0 == s0 + 3
      f1 == SkipDigits(s, f0)
      has_frac == has_sec /\ s0 + 2 <= n /\ s[s0 + 2] = 46 /\ digit(f0)
      frac_end == IF f1 - f0 > 6 THEN f0 + 6 ELSE f1
      end == IF has_frac THEN frac_end ELSE IF has_sec THEN s0 + 2 ELSE m0 + 2
      RECURSIVE Pad(_, _)
      Pad(v, w) == IF w >= 6 THEN v ELSE Pad(v * 10, w + 1)
      secs == DigitsValue(s, k + 1, k + 2) * 3600 + DigitsValue(s, m0, m0 + 1) * 60
                + (IF has_sec THEN DigitsValue(s, s0, s0 + 1) ELSE 0)
      us == IF has_frac THEN Pad(DigitsValue(s, f0, frac_end - 1), frac_end - f0) ELSE 0
      sign == IF s[k] = 45 THEN 0 - 1 ELSE 1
  IN IF k > n THEN StrptimeFail
     ELSE IF s[k] = 90
       THEN IF k = n THEN [ok |-> TRUE, ordinal |-> 0, sec |-> 0, off |-> 0, off_us |-> 0]
            ELSE StrptimeFail
     ELSE IF ~(s[k] = 43 \/ s[k] = 45) \/ ~digit(k + 1) \/ ~digit(k + 2)
               \/ ~low(m0) \/ ~digit(m0 + 1)
       THEN StrptimeFail
     ELSE IF end # n + 1 THEN StrptimeFail
     ELSE IF has_sec /\ c1 # c2 THEN StrptimeFail
     ELSE IF secs >= 86400 THEN StrptimeFail
     ELSE [ok |-> TRUE, ordinal |-> 0, sec |-> 0, off |-> sign * secs, off_us |-> sign * us]

\* datetime.strptime(s, "%m/%d/%Y %H:%M:%S") and, with_z, the same format
\* followed by " %z": fields of one or two digits, a year of four, any run of
\* white space where the format has a space, nothing after the last field
Strptime(s, with_z) ==
  LET n == Len(s)
      at(j, c) == j <= n /\ s[j] = c
      m1 == SkipDigits(s, 1)
      month == DigitsValue(s, 1, m1 - 1)
      d0 == IF at(m1 + 1, 32) THEN m1 + 2 ELSE m1 + 1
      d1 == SkipDigits(s, d0)
      day == DigitsValue(s, d0, d1 - 1)
      y0 == d1 + 1
      y1 == SkipDigits(s, y0)
      year == DigitsValue(s, y0, y0 + 3)
      h0 == SkipSpace(s, y0 + 4)
      h1 == SkipDigits(s, h0)
      hour == DigitsValue(s, h0, h1 - 1)
      i0 == h1 + 1
      i1 == SkipDigits(s, i0)
      minute == DigitsValue(s, i0, i1 - 1)
      s0 == i1 + 1
      s1 == IF SkipDigits(s, s0) - s0 > 2 THEN s0 + 2 ELSE SkipDigits(s, s0)
      second == DigitsValue(s, s0, s1 - 1)
      second2 == IF s1 - s0 = 2 /\ second > 61 THEN s[s0] - 48 ELSE second
      s2 == IF s1 - s0 = 2 /\ second > 61 THEN s0 + 1 ELSE s1
      z0 == SkipSpace(s, s2)
      z == IF with_z THEN ParseOffset(s, z0) ELSE StrptimeFail
      fields_ok ==
        /\ m1 - 1 >= 1 /\ m1 - 1 <= 2 /\ month >= 1 /\ month <= 12
        /\ at(m1, 47)
        /\ d1 - d0 >= 1 /\ d1 - d0 <= 2 /\ day >= 1 /\ day <= 31
        /\ (d0 = m1 + 2 => d1 - d0 = 1)
        /\ at(d1, 47)
        /\ y1 - y0 >= 4
        /\ h0 > y0 + 4
        /\ h1 - h0 >= 1 /\ h1 - h0 <= 2 /\ hour <= 23
        /\ at(h1, 58)
        /\ i1 - i0 >= 1 /\ i1 - i0 <= 2 /\ minute <= 59
        /\ at(i1, 58)
        /\ s2 - s0 >= 1
      rest_ok == IF with_z THEN z0 > s2 /\ z.ok ELSE s2 = n + 1
  IN IF ~fields_ok THEN StrptimeFail
     ELSE IF ~rest_ok THEN StrptimeFail
     ELSE IF year < 1 \/ day > DaysInMonth(year, month) \/ second2 > 59 THEN StrptimeFail
     ELSE [ok |-> TRUE, ordinal |-> ToOrdinal(year, month, day),
           sec |-> hour * 3600 + minute * 60 + second2,
           off |-> IF with_z THEN z.off ELSE 0,
           off_us |-> IF with_z THEN z.off_us ELSE 0]

\* dt.astimezone(timezone.utc) of the wall-clock reading at the UTC offset:
\* OverflowError outside the years 1 to 9999
ToUtc(ordinal, sec, off, off_us) ==
  LET total == sec - off - (IF off_us > 0 THEN 1 ELSE 0)
      us == IF off_us > 0 THEN 1000000 - off_us ELSE 0 - off_us
      carry == IF total < 0 THEN 0 - 1 ELSE total \div 86400
      ord == ordinal + carry
  IN IF ord < 1 \/ ord > MaxOrdinal THEN [exc |-> "OverflowError", dt |-> None]
     ELSE [exc |-> "ok",
           dt |-> Some([day |-> ord - ToOrdinal(2025, 1, 1),
                        sec |-> total - carry * 86400, us |-> us, aware |-> TRUE])]

local_tz_Daylight == 0 - 7 * 3600

\* timezone(timedelta(hours=-8)), in seconds
local_tz == 0 - 8 * 3600

\* the datetime parsed, None for an absent or empty string, or the exception
_parse_csv_timestamp_text(s) ==
  IF ~IsSome(s) \/ Val(s) = <<>> THEN [exc |-> "ok", dt |-> None]
  ELSE LET t == StripText(Val(s))
           dt_with_tz == Strptime(t, TRUE)
           dt_naive == Strptime(t, FALSE)
       IN IF dt_with_tz.ok
            THEN ToUtc(dt_with_tz.ordinal, dt_with_tz.sec, dt_with_tz.off, dt_with_tz.off_us)
          ELSE IF dt_naive.ok
            THEN ToUtc(dt_naive.ordinal, dt_naive.sec, local_tz, 0)
          ELSE [exc |-> "ValueError", dt |-> None]

(***************************************************************************)
(* SpecTimestamp: _parse_csv_timestamp applied to timestamp strings.  A    *)
(* string is written from a date, a time of day and an optional UTC offset *)
(* in minutes, in one of the styles below.                                 *)
(***************************************************************************)
TsDates == {<<2025, 10, 22>>, <<2025, 12, 9>>, <<2025, 7, 4>>, <<2025, 3, 9>>,
            <<2025, 12, 31>>, <<2026, 2, 28>>}

TsTimes == {<<0, 20, 0>>, <<11, 50, 16>>, <<16, 0, 0>>, <<23, 59, 59>>}

TsOffsets == {None, Some(0 - 420), Some(0 - 480), Some(330), Some(0)}

TsFields == {[date |-> d, time |-> t, off |-> o] : d \in TsDates, t \in TsTimes, o \in TsOffsets}

\* the two forms MM/DD/YYYY HH:MM:SS and MM/DD/YYYY HH:MM:SS +HH:MM
CanonicalStyles == {"canonical"}

\* one-digit fields; white space around and doubled; offset as +HHMM; offset as Z
LenientStyles == {"short", "padded", "nocolon", "zulu"}

\* other separators; no seconds; two-digit year; offset glued to the time;
\* text after the seconds; ISO 8601; thirteenth month
InvalidStyles == {"dashes", "no_seconds", "two_digit_year", "glued", "trailing", "iso", "month13"}

D2(n) == <<48 + (n \div 10), 48 + (n % 10)>>
D1(n) == IF n < 10 THEN <<48 + n>> ELSE D2(n)
D4(n) == D2(n \div 100) \o D2(n % 100)

OffsetText(o, colon) ==
  LET a == IF o < 0 THEN 0 - o ELSE o
  IN <<IF o < 0 THEN 45 ELSE 43>> \o D2(a \div 60)
       \o (IF colon THEN <<58>> ELSE <<>>) \o D2(a % 60)

DateText(d, short, sep) ==
  (IF short THEN D1(d[2]) ELSE D2(d[2])) \o <<sep>>
    \o (IF short THEN D1(d[3]) ELSE D2(d[3])) \o <<sep>> \o D4(d[1])

TimeText(t, short) ==
  (IF short THEN D1(t[1]) ELSE D2(t[1])) \o <<58>>
    \o (IF short THEN D1(t[2]) ELSE D2(t[2])) \o <<58>>
    \o (IF short THEN D1(t[3]) ELSE D2(t[3]))

\* whether the style applies to the fields
StyleApplies(f, style) ==
  IF style = "nocolon" \/ style = "glued" THEN IsSome(f.off)
  ELSE IF style = "zulu" THEN f.off = Some(0)
  ELSE IF style = "iso" \/ style = "no_seconds" THEN ~IsSome(f.off)
  ELSE TRUE

TimestampText(f, style) ==
  LET off(gap, colon) == IF IsSome(f.off) THEN gap \o OffsetText(Val(f.off), colon) ELSE <<>>
  IN IF style = "canonical"
       THEN DateText(f.date, FALSE, 47) \o <<32>> \o TimeText(f.time, FALSE) \o off(<<32>>, TRUE)
     ELSE IF style = "short"
       THEN DateText(f.date, TRUE, 47) \o <<32>> \o TimeText(f.time, TRUE) \o off(<<32>>, TRUE)
     ELSE IF style = "padded"
       THEN <<32>> \o DateText(f.date, FALSE, 47) \o <<32, 32>> \o TimeText(f.time, FALSE)
              \o off(<<9>>, TRUE) \o <<32>>
     ELSE IF style = "nocolon"
       THEN DateText(f.date, FALSE, 47) \o <<32>> \o TimeText(f.time, FALSE) \o off(<<32>>, FALSE)
     ELSE IF style = "zulu"
       THEN DateText(f.date, FALSE, 47) \o <<32>> \o TimeText(f.time, FALSE) \o <<32, 90>>
     ELSE IF style = "dashes"
       THEN DateText(f.date, FALSE, 45) \o <<32>> \o TimeText(f.time, FALSE) \o off(<<32>>, TRUE)
     ELSE IF style = "no_seconds"
       THEN DateText(f.date, FALSE, 47) \o <<32>> \o D2(f.time[1]) \o <<58>> \o D2(f.time[2])
     ELSE IF style = "two_digit_year"
       THEN D2(f.date[2]) \o <<47>> \o D2(f.date[3]) \o <<47>> \o D2(f.date[1] % 100)
              \o <<32>> \o TimeText(f.time, FALSE) \o off(<<32>>, TRUE)
     ELSE IF style = "glued"
       THEN DateText(f.date, FALSE, 47) \o <<32>> \o TimeText(f.time, FALSE) \o off(<<>>, TRUE)
     ELSE IF style = "trailing"
       THEN DateText(f.date, FALSE, 47) \o <<32>> \o TimeText(f.time, FALSE) \o off(<<32>>, TRUE)
              \o <<32, 120>>
     ELSE IF style = "iso"
       THEN D4(f.date[1]) \o <<45>> \o D2(f.date[2]) \o <<45>> \o D2(f.date[3]) \o <<84>>
              \o TimeText(f.time, FALSE)
     ELSE D2(13) \o <<47>> \o D2(f.date[3]) \o <<47>> \o D4(f.date[1])
              \o <<32>> \o TimeText(f.time, FALSE) \o off(<<32>>, TRUE)

TimestampInput(kind, style, f, s) ==
  Response("timestamp_input", NoResp.creds, None, None, 0, "",
           Some([kind |-> kind, style |-> style, fields |-> f, s |-> s]))

StyledInputs(kind, styles) ==
  {TimestampInput(kind, x[2], x[1], Some(TimestampText(x[1], x[2]))) :
     x \in {y \in TsFields \X styles : StyleApplies(y[1], y[2])}}

NoFields == [date |-> <<2025, 1, 1>>, time |-> <<0, 0, 0>>, off |-> None]

\* no string, the empty string, and strings that are neither a date nor empty
PlainInputs ==
  {TimestampInput("absent", "none", NoFields, None),
   TimestampInput("empty", "empty", NoFields, Some(<<>>)),
   TimestampInput("invalid", "blank", NoFields, Some(<<32, 32>>)),
   TimestampInput("invalid", "word", NoFields, Some(<<110, 111, 119>>))}

\* canonical strings whose instant in UTC lies after the year 9999 or before
\* the year 1: "12/31/9999 23:59:59" and "01/01/0001 00:00:00 +00:01"
OutOfRangeInputs ==
  {TimestampInput("out_of_range", "canonical",
                  [date |-> <<9999, 12, 31>>, time |-> <<23, 59, 59>>, off |-> None],
                  Some(TimestampText([date |-> <<9999, 12, 31>>, time |-> <<23, 59, 59>>,
                                      off |-> None], "canonical"))),
   TimestampInput("out_of_range", "canonical",
                  [date |-> <<1, 1, 1>>, time |-> <<0, 0, 0>>, off |-> Some(1)],
                  Some(TimestampText([date |-> <<1, 1, 1>>, time |-> <<0, 0, 0>>,
                                      off |-> Some(1)], "canonical")))}

TimestampInputs ==
  StyledInputs("canonical", CanonicalStyles) \cup StyledInputs("lenient", LenientStyles)
    \cup StyledInputs("invalid", InvalidStyles) \cup PlainInputs \cup OutOfRangeInputs

parse_csv_timestamp ==
  /\ resp.op = "timestamp_input"
  /\ resp' = [resp EXCEPT
       !.op = "_parse_csv_timestamp",
       !.data = Some([kind |-> Val(resp.data).kind, style |-> Val(resp.data).style,
                      fields |-> Val(resp.data).fields, s |-> Val(resp.data).s,
                      parsed |-> _parse_csv_timestamp_text(Val(resp.data).s)])]
  /\ UNCHANGED <<storeVars, clock, walk, imp, reqs>>

InitTimestamp ==
  /\ trades = {}
  /\ nextId = 1
  /\ images = {}
  /\ analyses = {}
  /\ objects = {}
  /\ clock = ClockStart
  /\ walk = IdleWalk
  /\ imp = NoImport
  /\ reqs = NoRequests
  /\ resp \in TimestampInputs

NextTimestamp == parse_csv_timestamp

SpecTimestamp == InitTimestamp /\ [][NextTimestamp]_vars

TimestampParsed(kind) == resp.op = "_parse_csv_timestamp" /\ Val(resp.data).kind = kind

\* the wall-clock reading of the fields, in seconds since 2025-01-01T00:00:00
WallOf(f) ==
  UtcMonthStart(f.date[1], f.date[2]) + (f.date[3] - 1) * Day
    + f.time[1] * Hour + f.time[2] * 60 + f.time[3]

\* the instant the fields name: the reading at their offset, or at UTC-8
InstantOf(f) ==
  IF IsSome(f.off) THEN WallOf(f) - Val(f.off) * 60 ELSE WallOf(f) + 8 * Hour

\* the parser returned exactly the instant t, in UTC
ParsedTo(p, t) ==
  /\ p.exc = "ok" /\ IsSome(p.dt)
  /\ Val(p.dt).aware
  /\ Val(p.dt).day * Day + Val(p.dt).sec = t
  /\ Val(p.dt).us = 0

\* "10/22/2025 00:20:00 -07:00" and "12/09/2025 11:50:16"
ExampleOffset == [date |-> <<2025, 10, 22>>, time |-> <<0, 20, 0>>, off |-> Some(0 - 420)]
ExampleNaive == [date |-> <<2025, 12, 9>>, time |-> <<11, 50, 16>>, off |-> None]

\* 2025-10-22T07:20:00Z and 2025-12-09T19:50:16Z
ExampleOffsetUtc == 294 * Day + 7 * Hour + 20 * 60
ExampleNaiveUtc == 342 * Day + 19 * Hour + 50 * 60 + 16

TimestampExamples ==
  /\ TimestampText(ExampleOffset, "canonical")
       = <<49, 48, 47, 50, 50, 47, 50, 48, 50, 53, 32, 48, 48, 58, 50, 48, 58, 48, 48,
           32, 45, 48, 55, 58, 48, 48>>
  /\ (TimestampParsed("canonical") /\ Val(resp.data).fields = ExampleOffset) =>
       ParsedTo(Val(resp.data).parsed, ExampleOffsetUtc)
  /\ (TimestampParsed("canonical") /\ Val(resp.data).fields = ExampleNaive) =>
       ParsedTo(Val(resp.data).parsed, ExampleNaiveUtc)

IdleDelete == NoRequests.del
IdleImage == NoRequests.img

\* DELETE /trades/{trade_id}: authentication and check_trade_belongs_to_user
delete_trade_check(Toks, Ids) ==
  /\ reqs.del.pc = "idle"
  /\ \E tok \in Toks, trade_id \in Ids :
       LET creds == Creds(tok, None)
           auth == verify_supabase_token(tok)
       IN IF ~IsSome(auth)
          THEN /\ resp' = Unauthorized("delete_trade", creds)
               /\ UNCHANGED reqs
          ELSE IF IsSome(OwnershipGate("delete_trade", creds, auth, trade_id))
          THEN /\ resp' = Val(OwnershipGate("delete_trade", creds, auth, trade_id))
               /\ UNCHANGED reqs
          ELSE /\ reqs' = [reqs EXCEPT !.del =
                             [pc |-> "checked", creds |-> creds, user_id |-> Val(auth),
                              trade_id |-> trade_id, imgs |-> {}]]
               /\ UNCHANGED resp
  /\ UNCHANGED <<storeVars, clock, walk, imp>>

\* fetch_trade_with_images: the image rows the loop will delete
delete_trade_fetch ==
  /\ reqs.del.pc = "checked"
  /\ LET d == reqs.del
         trade == fetch_trade_with_images(d.user_id, d.trade_id)
     IN IF ~IsSome(trade)
        THEN /\ resp' = Response("delete_trade", d.creds, Some(d.user_id),
                                 OwnerOfTrade(d.trade_id), 404, "trade_not_found", None)
             /\ reqs' = [reqs EXCEPT !.del = IdleDelete]
        ELSE /\ reqs' = [reqs EXCEPT !.del.pc = "deleting",
                                     !.del.imgs = Val(trade).images]
             /\ UNCHANGED resp
  /\ UNCHANGED <<storeVars, clock, walk, imp>>

\* one turn of the loop: delete_image_record and delete_object of one image
delete_trade_image ==
  /\ reqs.del.pc = "deleting"
  /\ reqs.del.imgs # {}
  /\ LET img == CHOOSE x \in reqs.del.imgs : \A y \in reqs.del.imgs : x.id <= y.id
     IN /\ images' = delete_image_record(img.id)
        /\ objects' = objects \ {img.s3_key}
        /\ reqs' = [reqs EXCEPT !.del.imgs = @ \ {img}]
  /\ UNCHANGED <<trades, analyses, nextId, clock, walk, resp, imp>>

\* delete_trade_record after the loop, and the answer
delete_trade_finish ==
  /\ reqs.del.pc = "deleting"
  /\ reqs.del.imgs = {}
  /\ LET d == reqs.del
     IN IF trades = delete_trade_record(d.user_id, d.trade_id)
        THEN /\ resp' = Response("delete_trade", d.creds, Some(d.user_id),
                                 OwnerOfTrade(d.trade_id), 500, "delete_trade_failed", None)
             /\ reqs' = [reqs EXCEPT !.del = IdleDelete]
             /\ UNCHANGED trades
        ELSE /\ trades' = delete_trade_record(d.user_id, d.trade_id)
             /\ resp' = Response("delete_trade", d.creds, Some(d.user_id),
                                 OwnerOfTrade(d.trade_id), 204, "", None)
             /\ reqs' = [reqs EXCEPT !.del = IdleDelete,
                                     !.deleted = @ \cup {d.trade_id}]
  /\ walk' = Watched(trades')
  /\ UNCHANGED <<images, analyses, objects, nextId, clock, imp>>

\* POST /trades/{trade_id}/images: authentication,
\* check_trade_belongs_to_user and the test of the key prefix
create_image_check(Toks, Ids, Keys) ==
  /\ reqs.img.pc = "idle"
  /\ nextId <= MaxIds
  /\ \E tok \in Toks, trade_id \in Ids, key \in Keys :
       LET creds == Creds(tok, None)
           auth == verify_supabase_token(tok)
       IN IF ~IsSome(auth)
          THEN /\ resp' = Unauthorized("create_image", creds)
               /\ UNCHANGED reqs
          ELSE IF IsSome(OwnershipGate("create_image", creds, auth, trade_id))
          THEN /\ resp' = Val(OwnershipGate("create_image", creds, auth, trade_id))
               /\ UNCHANGED reqs
          ELSE IF ~HasExpectedPrefix(key, Val(auth), trade_id)
          THEN /\ resp' = Response("create_image", creds, auth, OwnerOfTrade(trade_id),
                                   400, "invalid_key_prefix", None)
               /\ UNCHANGED reqs
          ELSE /\ reqs' = [reqs EXCEPT !.img =
                             [pc |-> "checked", creds |-> creds, user_id |-> Val(auth),
                              trade_id |-> trade_id, key |-> key]]
               /\ UNCHANGED resp
  /\ UNCHANGED <<storeVars, clock, walk, imp>>

\* insert_image and the answer
create_image_insert ==
  /\ reqs.img.pc = "checked"
  /\ LET i == reqs.img
         row == [id |-> nextId, user_id |-> i.user_id,
                 trade_id |-> i.trade_id, s3_key |-> i.key]
     IN /\ images' = images \cup {row}
        /\ nextId' = nextId + 1
        /\ resp' = Response("create_image", i.creds, Some(i.user_id),
                            OwnerOfTrade(i.trade_id), 201, "", Some(row))
        /\ reqs' = [reqs EXCEPT !.img = IdleImage]
  /\ UNCHANGED <<trades, analyses, objects, clock, walk, imp>>

InitRace ==
  /\ trades = {}
  /\ nextId = 1
  /\ InitRest

NextRace ==
  \/ create_trade(OwnTokens, NoteBodies, BOOLEAN)
  \/ delete_trade_check(OwnTokens, AllIds)
  \/ delete_trade_fetch
  \/ delete_trade_image
  \/ delete_trade_finish
  \/ create_image_check(OwnTokens, AllIds, OwnKeys)
  \/ create_image_insert

SpecRace == InitRace /\ [][NextRace]_vars

\* C19: once delete_trade has reported success for a trade, the store holds
\* neither the trade row nor any image row that references the trade,
\* whatever other requests do before, between and after its store calls.
C19_DeletedTradeLeavesNoRows ==
  \A id \in reqs.deleted :
    /\ id \notin TradeIds
    /\ \A im \in images : im.trade_id # id

\* the half of C19 about the trade row
DeletedTradeRowGone == \A id \in reqs.deleted : id \notin TradeIds

(***************************************************************************)
(* SpecUpdate: PUT /trades/{trade_id} over two stored trades, with         *)
(* bodies that set one field, two fields or none.                          *)
(***************************************************************************)
MaxEdits == 2

\* a trade of u1 with every column filled and a trade of u2 with most of the
\* optional columns empty
UpdRows ==
  {[BlankTrade EXCEPT
      !.id = 1, !.user_id = "u1", !.sort_at = Some(1), !.note = "n",
      !.taken_at = Some(ClockStart), !.exit_at = Some(ClockStart + Hour),
      !.outcome = Some("win"), !.strategies = Some({"s1"}), !.session = Some("NY"),
      !.mistakes = Some({"m1"}), !.side = Some("buy"), !.entry_price = Some(1000),
      !.exit_price = Some(1500), !.contracts = Some(1), !.pnl = Some(500),
      !.symbol = Some("NQ"), !.account_id = Some("a1")],
   [BlankTrade EXCEPT
      !.id = 2, !.user_id = "u2", !.sort_at = Some(2),
      !.taken_at = Some(ClockStart), !.session = Some("NY"),
      !.pnl = Some(500)]}

UpdIds == {1, 2}

\* 2025-01-02T23:00:00Z is 15:00 in Los Angeles (Asia); the naive reading
\* 2025-01-02T09:00:00 is taken as UTC, 01:00 in Los Angeles (London)
UpdateBodies ==
  {BlankBody,
   [BlankBody EXCEPT !.note = Some("x")],
   [BlankBody EXCEPT !.note = Some("")],
   [BlankBody EXCEPT !.takenAt = Some([t |-> 1 * Day + 23 * Hour, aware |-> TRUE])],
   [BlankBody EXCEPT !.takenAt = Some([t |-> 1 * Day + 9 * Hour, aware |-> FALSE])],
   [BlankBody EXCEPT !.exitAt = Some([t |-> 2 * Day, aware |-> TRUE])],
   [BlankBody EXCEPT !.outcome = Some("loss")],
   [BlankBody EXCEPT !.strategies = Some({})],
   [BlankBody EXCEPT !.mistakes = Some({"m2"})],
   [BlankBody EXCEPT !.side = Some("sell")],
   [BlankBody EXCEPT !.entryPrice = Some(0)],
   [BlankBody EXCEPT !.exitPrice = Some(2000)],
   [BlankBody EXCEPT !.contracts = Some(0)],
   [BlankBody EXCEPT !.pnl = Some(0)],
   [BlankBody EXCEPT !.symbol = Some("es")],
   [BlankBody EXCEPT !.note = Some("x"), !.pnl = Some(0 - 250)]}

Columns ==
  {"note", "taken_at", "exit_at", "outcome", "strategies", "session", "mistakes",
   "side", "entry_price", "exit_price", "contracts", "pnl", "symbol"}

\* the number of columns that differ from the rows at the start
Edits ==
  Cardinality({x \in trades \X Columns :
                 \E r \in UpdRows : r.id = x[1].id /\ r[x[2]] # x[1][x[2]]})

InitUpdate ==
  /\ trades = UpdRows
  /\ nextId = 3
  /\ InitRest

NextUpdate == Edits < MaxEdits /\ update_trade_recorded(OwnTokens, UpdIds, UpdateBodies)

SpecUpdate == InitUpdate /\ [][NextUpdate]_vars

\* the column is the value the body sets, or the old value when it sets none
Framed(set, want, new, old) == IF set THEN new = want ELSE new = old

\* the row after the update against the row before it and the body
RowFramed(body, old, new) ==
  /\ new.id = old.id /\ new.user_id = old.user_id
  /\ new.sort_at = old.sort_at /\ new.account_id = old.account_id
  /\ Framed(IsSome(body.note), Val(body.note), new.note, old.note)
  /\ Framed(IsSome(body.takenAt), Some(Val(body.takenAt).t), new.taken_at, old.taken_at)
  /\ Framed(IsSome(body.takenAt),
            Some(LabelOfWallClock(WallClock(Val(body.takenAt).t))),
            new.session, old.session)
  /\ Framed(IsSome(body.exitAt), Some(Val(body.exitAt).t), new.exit_at, old.exit_at)
  /\ Framed(IsSome(body.outcome), body.outcome, new.outcome, old.outcome)
  /\ Framed(IsSome(body.strategies), body.strategies, new.strategies, old.strategies)
  /\ Framed(IsSome(body.mistakes), body.mistakes, new.mistakes, old.mistakes)
  /\ Framed(IsSome(body.side), body.side, new.side, old.side)
  /\ Framed(IsSome(body.entryPrice), body.entryPrice, new.entry_price, old.entry_price)
  /\ Framed(IsSome(body.exitPrice), body.exitPrice, new.exit_price, old.exit_price)
  /\ Framed(IsSome(body.contracts), body.contracts, new.contracts, old.contracts)
  /\ Framed(IsSome(body.pnl), body.pnl, new.pnl, old.pnl)
  /\ Framed(IsSome(body.symbol), body.symbol, new.symbol, old.symbol)

\* the step ends with the answer of a successful update_trade
UpdateServed == resp'.op = "update_trade" /\ resp'.status = 200

\* C20: update_trade changes exactly the fields the body sets, and session
\* when takenAt is set; every other field of the trade and every other trade
\* stay as they were; a body that sets no field causes no write to the store.
C20_UpdateFrame ==
  [][UpdateServed =>
       LET put == reqs'.put
       IN /\ {t.id : t \in trades'} = TradeIds
          /\ \A t \in trades : t.id # put.trade_id => t \in trades'
          /\ RowFramed(put.body, TradeById(put.trade_id),
                       CHOOSE t \in trades' : t.id = put.trade_id)
          /\ put.body = BlankBody => (~put.written /\ trades' = trades)]_vars

\* a body that sets takenAt alone was served for the trade with every column
\* filled: taken_at and session are new, the other columns are as at the start
C20_Witness ==
  /\ resp.op = "update_trade" /\ resp.status = 200
  /\ reqs.put.trade_id = 1
  /\ reqs.put.body = [BlankBody EXCEPT
                        !.takenAt = Some([t |-> 1 * Day + 23 * Hour, aware |-> TRUE])]
  /\ \E t \in trades :
       /\ t.id = 1
       /\ t.taken_at = Some(1 * Day + 23 * Hour) /\ t.session = Some("Asia")
       /\ t.outcome = Some("win") /\ t.pnl = Some(500) /\ t.note = "n"

(***************************************************************************)
(* SpecKey: POST /trades/{trade_id}/images with keys under the prefix of   *)
(* every user and trade, a key that stops before the file name, and a key  *)
(* outside the u/ namespace.                                               *)
(***************************************************************************)
ImageKeys ==
  OwnKeys \cup {<<"u", "u1", "trades", 1>>, <<"tmp", "u1", "trades", 1, "file">>}

InitKey ==
  /\ trades = {}
  /\ nextId = 1
  /\ InitRest

NextKey ==
  \/ create_trade(OwnTokens, NoteBodies, BOOLEAN)
  \/ create_image(OwnTokens, AllIds, ImageKeys)

SpecKey == InitKey /\ [][NextKey]_vars

\* the key lies under u/<owner>/trades/<trade>/
KeyUnder(key, owner, trade) ==
  /\ Len(key) >= 5
  /\ key[1] = "u" /\ key[2] = owner /\ key[3] = "trades" /\ key[4] = trade

\* C21: every image row created through create_image has a key under
\* u/<owner>/trades/<trade_id>/ of the requesting owner and the trade of the
\* path; a request with another key is answered 400 invalid_key_prefix and
\* inserts no row.
C21_KeyUnderOwnerAndTrade ==
  [][/\ \A im \in images' : KeyUnder(im.s3_key, im.user_id, im.trade_id)
     /\ images' # images =>
          /\ resp'.op = "create_image" /\ resp'.status = 201
          /\ images' \ images = {Val(resp'.data)}
          /\ Val(resp'.data).user_id = resp'.creds.token.sub
          /\ resp'.creds.token.valid
     /\ (resp'.op = "create_image" /\ resp'.status # 201) => images' = images]_vars

\* the owner of a trade sent a key outside the prefix: refused, no row
C21_Witness ==
  /\ resp.op = "create_image" /\ resp.status = 400
  /\ resp.detail = "invalid_key_prefix"
  /\ resp.acting = resp.owner
  /\ images = {}

\* a row was inserted under the prefix of its owner and trade
C21_Inserted ==
  /\ resp.op = "create_image" /\ resp.status = 201
  /\ \E im \in images : KeyUnder(im.s3_key, im.user_id, im.trade_id)

(***************************************************************************)
(* SpecSymbol: the three requests that write a symbol, with the symbol in  *)
(* upper and in lower case.                                                *)
(***************************************************************************)
SymbolBodies ==
  {[BlankBody EXCEPT !.symbol = Some("ES")], [BlankBody EXCEPT !.symbol = Some("es")]}

SymbolBatches == {<<BaseRow>>, <<[BaseRow EXCEPT !.symbol = "es"]>>}

NoAccount == {None}

InitSymbol ==
  /\ trades = {}
  /\ nextId = 1
  /\ InitRest

NextSymbol ==
  \/ create_trade(CsvTokens, SymbolBodies, BOOLEAN)
  \/ update_trade(CsvTokens, AllIds, SymbolBodies)
  \/ import_trades_csv_begin(CsvTokens, SymbolBatches, NoAccount)
  \/ import_trades_csv_row(BOOLEAN, {1})
  \/ import_trades_csv_return

SpecSymbol == InitSymbol /\ [][NextSymbol]_vars

\* C22: every symbol that create_trade, update_trade or import_trades_csv
\* wrote to the store is upper-case.
C22_StoredSymbolsUpperCase ==
  \A t \in trades : IsSome(t.symbol) => Val(t.symbol) = Upper(Val(t.symbol))

SymbolFilterValues == {"ES", "es"}

\* what C22 is for: a symbol filter selects every stored trade of the user
\* whose symbol equals a filter value ignoring case
SymbolFilterFindsIgnoringCase ==
  \A v \in SymbolFilterValues :
    LET page == list_trades("u1", MaxIds + 1, None, [NoFilters EXCEPT !.symbol = <<v>>])
    IN \A t \in trades :
         (t.user_id = "u1" /\ IsSome(t.symbol) /\ Upper(Val(t.symbol)) = Upper(v))
           => \E k \in DOMAIN page.items : page.items[k].id = t.id

\* an import stored a lower-case symbol as it came in the file
ImportStoredLowerCase ==
  /\ imp.inserted = 1
  /\ \E t \in trades \ imp.before : t.symbol = Some("es")

(***************************************************************************)
(* SpecQuery: the store calls of app/services/db.py as the queries they    *)
(* send: a table, a verb, and the eq/in_ predicates chained on it.         *)
(***************************************************************************)
Eq(col, v) == [col |-> col, vals |-> {v}]

In(col, vs) == [col |-> col, vals |-> vs]

Query(table, kind, preds) == [table |-> table, kind |-> kind, preds |-> preds]

DbFunctions ==
  {"check_trade_belongs_to_user", "fetch_trades_for_user.images",
   "fetch_trade_with_images.trade", "fetch_trade_with_images.images",
   "fetch_trade_with_images.analysis", "get_image_for_trade",
   "delete_image_record"}

\* the query the function builds from its arguments
QueryOf(fn, user_id, trade_id, image_id) ==
  CASE fn = "check_trade_belongs_to_user" ->
         Query("trades", "select", {Eq("id", trade_id)})
    [] fn = "fetch_trades_for_user.images" ->
         Query("images", "select",
               {In("trade_id", {t.id : t \in {x \in trades : x.user_id = user_id}})})
    [] fn = "fetch_trade_with_images.trade" ->
         Query("trades", "select", {Eq("id", trade_id), Eq("user_id", user_id)})
    [] fn = "fetch_trade_with_images.images" ->
         Query("images", "select", {Eq("trade_id", trade_id)})
    [] fn = "fetch_trade_with_images.analysis" ->
         Query("trade_analysis", "select", {Eq("trade_id", trade_id)})
    [] fn = "get_image_for_trade" ->
         Query("images", "select", {Eq("id", image_id), Eq("trade_id", trade_id)})
    [] fn = "delete_image_record" ->
         Query("images", "delete", {Eq("id", image_id)})

Table(name) ==
  CASE name = "trades" -> trades
    [] name = "images" -> images
    [] name = "trade_analysis" -> analyses

\* the rows of the table that satisfy every predicate of the query
Matching(q) == {r \in Table(q.table) : \A p \in q.preds : r[p.col] \in p.vals}

\* what the calling handler has established before it calls the function
CalledWhen(fn, user_id, trade_id, image_id) ==
  CASE fn = "check_trade_belongs_to_user" -> TRUE
    [] fn = "fetch_trades_for_user.images" -> \E t \in trades : t.user_id = user_id
    [] fn = "fetch_trade_with_images.trade" ->
         check_trade_belongs_to_user(trade_id, user_id) = "ok"
    [] fn \in {"fetch_trade_with_images.images", "fetch_trade_with_images.analysis"} ->
         IsSome(fetch_trade_with_images(user_id, trade_id))
    [] fn = "get_image_for_trade" ->
         check_trade_belongs_to_user(trade_id, user_id) = "ok"
    [] fn = "delete_image_record" ->
         /\ check_trade_belongs_to_user(trade_id, user_id) = "ok"
         /\ \/ get_image_for_trade(user_id, trade_id, image_id).exc = "ok"
            \/ \E im \in Val(fetch_trade_with_images(user_id, trade_id)).images :
                 im.id = image_id

\* one store call made on behalf of an authenticated request
db_query(Toks, Ids, ImageIds) ==
  /\ \E tok \in Toks, trade_id \in Ids, image_id \in ImageIds, fn \in DbFunctions :
       LET creds == Creds(tok, None)
           auth == verify_supabase_token(tok)
           q == QueryOf(fn, Val(auth), trade_id, image_id)
       IN /\ IsSome(auth)
          /\ CalledWhen(fn, Val(auth), trade_id, image_id)
          /\ images' = IF q.kind = "delete" THEN images \ Matching(q) ELSE images
          /\ resp' = Response(fn, creds, auth, OwnerOfTrade(trade_id), 0, "",
                              Some([query |-> q, rows |-> Matching(q)]))
  /\ UNCHANGED <<trades, analyses, objects, nextId, clock, walk, imp, reqs>>

InitQuery ==
  /\ trades = {}
  /\ nextId = 1
  /\ InitRest

NextQuery ==
  \/ create_trade(OwnTokens, NoteBodies, BOOLEAN)
  \/ create_image(OwnTokens, AllIds, OwnKeys)
  \/ db_query(OwnTokens, AllIds, AllIds)

SpecQuery == InitQuery /\ [][NextQuery]_vars

QueryIssued == resp.op \in DbFunctions

\* C23: every query issued against trades, images and trade_analysis carries
\* an equality predicate on the owner identifier of the requesting user.
C23_QueriesCarryOwner ==
  QueryIssued =>
    \E p \in Val(resp.data).query.preds :
      p.col = "user_id" /\ p.vals = {Val(resp.acting)}

\* the store answers a query with rows of the requesting user only
QueryRowsOwned ==
  QueryIssued => \A r \in Val(resp.data).rows : r.user_id = Val(resp.acting)

\* the queries are those the store operations of the model execute
QueryAgreesWithStore ==
  \A trade_id \in AllIds, image_id \in AllIds, u \in Users :
    /\ images \ Matching(QueryOf("delete_image_record", u, trade_id, image_id))
         = delete_image_record(image_id)
    /\ (Matching(QueryOf("check_trade_belongs_to_user", u, trade_id, image_id)) = {})
         = (check_trade_belongs_to_user(trade_id, u) = "LookupError")
    /\ (Matching(QueryOf("fetch_trade_with_images.trade", u, trade_id, image_id)) = {})
         = (fetch_trade_with_images(u, trade_id) = None)
    /\ IsSome(fetch_trade_with_images(u, trade_id)) =>
         Matching(QueryOf("fetch_trade_with_images.images", u, trade_id, image_id))
           = Val(fetch_trade_with_images(u, trade_id)).images
    /\ (Matching(QueryOf("get_image_for_trade", u, trade_id, image_id)) = {})
         = (get_image_for_trade(u, trade_id, image_id).exc = "LookupError")

(***************************************************************************)
(* SpecCleanup: delete_image and delete_trade when store and object        *)
(* storage calls fail.  A fault names the image ids whose                  *)
(* delete_image_record raises, the keys whose object delete fails, and     *)
(* whether delete_trade_record raises.                                     *)
(***************************************************************************)
\* mutant: the handler lets the exception of a cleanup step through
except_Exception_reraise(raised) == raised

\* try: ... except Exception as e: print(...): whether an exception leaves
\* the statement
except_Exception_print(raised) == except_Exception_reraise(FALSE)

\* DELETE /trades/{trade_id}/images/{image_id} under the fault f
delete_image_faulty(Toks, Ids, ImageIds, Faults) ==
  /\ \E tok \in Toks, trade_id \in Ids, image_id \in ImageIds, f \in Faults :
       LET creds == Creds(tok, None)
           auth == verify_supabase_token(tok)
       IN /\ reqs' = [reqs EXCEPT !.fault =
               [op |-> "delete_image", trade_id |-> trade_id,
                image_id |-> image_id, rows |-> f.rows, keys |-> f.keys,
                trade |-> f.trade]]
          /\ IF ~IsSome(auth)
             THEN /\ resp' = Unauthorized("delete_image", creds)
                  /\ UNCHANGED <<images, objects>>
             ELSE LET user_id == Val(auth)
                      owner == OwnerOfTrade(trade_id)
                      img == get_image_for_trade(user_id, trade_id, image_id)
                  IN IF IsSome(OwnershipGate("delete_image", creds, auth, trade_id))
                     THEN /\ resp' = Val(OwnershipGate("delete_image", creds, auth, trade_id))
                          /\ UNCHANGED <<images, objects>>
                     ELSE IF img.exc = "LookupError"
                     THEN /\ resp' = Response("delete_image", creds, auth, owner,
                                              404, "image_not_found", None)
                          /\ UNCHANGED <<images, objects>>
                     ELSE IF img.exc = "PermissionError"
                     THEN /\ resp' = Response("delete_image", creds, auth, owner,
                                              403, "forbidden", None)
                          /\ UNCHANGED <<images, objects>>
                     ELSE IF image_id \in f.rows
                     THEN /\ resp' = Unhandled("delete_image", creds, auth, owner)
                          /\ UNCHANGED <<images, objects>>
                     ELSE /\ images' = delete_image_record(image_id)
                          /\ objects' = IF Val(img.row).s3_key \in f.keys
                                          THEN objects
                                          ELSE objects \ {Val(img.row).s3_key}
                          /\ resp' =
                               IF except_Exception_print(Val(img.row).s3_key \in f.keys)
                                 THEN Unhandled("delete_image", creds, auth, owner)
                                 ELSE Response("delete_image", creds, auth, owner,
                                               204, "", None)
  /\ UNCHANGED <<trades, analyses, nextId, clock, walk, imp>>

\* DELETE /trades/{trade_id} under the fault f; the images are visited in
\* the order of their creation
delete_trade_faulty(Toks, Ids, Faults) ==
  /\ \E tok \in Toks, trade_id \in Ids, f \in Faults :
       LET creds == Creds(tok, None)
           auth == verify_supabase_token(tok)
       IN /\ reqs' = [reqs EXCEPT !.fault =
               [op |-> "delete_trade", trade_id |-> trade_id, image_id |-> 0,
                rows |-> f.rows, keys |-> f.keys, trade |-> f.trade]]
          /\ IF ~IsSome(auth)
             THEN /\ resp' = Unauthorized("delete_trade", creds)
                  /\ UNCHANGED <<trades, images, objects>>
             ELSE LET user_id == Val(auth)
                      owner == OwnerOfTrade(trade_id)
                  IN IF IsSome(OwnershipGate("delete_trade", creds, auth, trade_id))
                     THEN /\ resp' = Val(OwnershipGate("delete_trade", creds, auth, trade_id))
                          /\ UNCHANGED <<trades, images, objects>>
                     ELSE LET imgs == Val(fetch_trade_with_images(user_id, trade_id)).images
                              rowLeaves(im) == except_Exception_print(im.id \in f.rows)
                              objLeaves(im) == except_Exception_print(im.s3_key \in f.keys)
                              stopAt == {im \in imgs : rowLeaves(im) \/ objLeaves(im)}
                              visited(im) == \A x \in stopAt : im.id <= x.id
                              rowDeleted(im) == visited(im) /\ im.id \notin f.rows
                              objDeleted(im) == /\ visited(im)
                                                /\ ~rowLeaves(im)
                                                /\ im.s3_key \notin f.keys
                          IN /\ images' = {im \in images : ~(im \in imgs /\ rowDeleted(im))}
                             /\ objects' = objects \ {im.s3_key : im \in {x \in imgs : objDeleted(x)}}
                             /\ IF stopAt # {}
                                  THEN /\ resp' = Unhandled("delete_trade", creds, auth, owner)
                                       /\ UNCHANGED trades
                                ELSE IF f.trade
                                  THEN /\ resp' = Response("delete_trade", creds, auth, owner,
                                                           500, "delete_trade_failed", None)
                                       /\ UNCHANGED trades
                                  ELSE /\ trades' = delete_trade_record(user_id, trade_id)
                                       /\ resp' = Response("delete_trade", creds, auth, owner,
                                                           204, "", None)
  /\ walk' = Watched(trades')
  /\ UNCHANGED <<analyses, nextId, clock, imp>>

CleanupTrades ==
  {[BlankTrade EXCEPT !.id = 1, !.user_id = "u1", !.sort_at = Some(1),
                      !.taken_at = Some(ClockStart), !.session = Some("NY")],
   [BlankTrade EXCEPT !.id = 2, !.user_id = "u2", !.sort_at = Some(2),
                      !.taken_at = Some(ClockStart), !.session = Some("NY")]}

CleanupImages ==
  {[id |-> 1, user_id |-> "u1", trade_id |-> 1, s3_key |-> gen_key("u1", 1, "a")],
   [id |-> 2, user_id |-> "u1", trade_id |-> 1, s3_key |-> gen_key("u1", 1, "b")],
   [id |-> 3, user_id |-> "u2", trade_id |-> 2, s3_key |-> gen_key("u2", 2, "a")]}

CleanupTradeIds == {1, 2}

CleanupImageIds == {1, 2, 3}

CleanupFaults ==
  [rows : SUBSET {1}, keys : SUBSET {gen_key("u1", 1, "b")}, trade : BOOLEAN]

InitCleanup ==
  /\ trades = CleanupTrades
  /\ nextId = 4
  /\ images \in SUBSET CleanupImages
  /\ objects \in SUBSET {im.s3_key : im \in images}
  /\ analyses = {}
  /\ clock = ClockStart
  /\ walk = IdleWalk
  /\ resp = NoResp
  /\ imp = NoImport
  /\ reqs = NoRequests

NextCleanup ==
  \/ delete_image_faulty(OwnTokens, CleanupTradeIds, CleanupImageIds, CleanupFaults)
  \/ delete_trade_faulty(OwnTokens, CleanupTradeIds, CleanupFaults)

SpecCleanup == InitCleanup /\ [][NextCleanup]_vars

\* the request that resp' answers passed the checks made before the deletes
DeleteImageAdmitted ==
  /\ resp'.op = "delete_image"
  /\ IsSome(resp'.acting)
  /\ check_trade_belongs_to_user(reqs'.fault.trade_id, Val(resp'.acting)) = "ok"
  /\ get_image_for_trade(Val(resp'.acting), reqs'.fault.trade_id,
                         reqs'.fault.image_id).exc = "ok"

DeleteTradeAdmitted ==
  /\ resp'.op = "delete_trade"
  /\ IsSome(resp'.acting)
  /\ check_trade_belongs_to_user(reqs'.fault.trade_id, Val(resp'.acting)) = "ok"

\* C24: in delete_image and delete_trade a failing cleanup step (an object
\* delete, or the delete of one image row of the trade being deleted) is not
\* reported: when the primary record delete succeeds the answer is 204, the
\* primary record is gone, and every cleanup step that did not fail has run.
C24_CleanupFailureNotReported ==
  [][ /\ (DeleteImageAdmitted /\ reqs'.fault.image_id \notin reqs'.fault.rows) =>
           /\ resp'.status = 204
           /\ \A im \in images' : im.id # reqs'.fault.image_id
           /\ \A im \in images :
                (im.id = reqs'.fault.image_id /\ im.s3_key \notin reqs'.fault.keys)
                  => im.s3_key \notin objects'
      /\ (DeleteTradeAdmitted /\ ~reqs'.fault.trade) =>
           /\ resp'.status = 204
           /\ \A t \in trades' : t.id # reqs'.fault.trade_id
           /\ \A im \in images :
                im.trade_id = reqs'.fault.trade_id =>
                  /\ im.id \notin reqs'.fault.rows => im \notin images'
                  /\ im.s3_key \notin reqs'.fault.keys => im.s3_key \notin objects'
    ]_vars

\* a trade was deleted with 204 although the row delete of its first image
\* and the object delete of its second image failed; the second row is gone
C24_Witness ==
  /\ resp.op = "delete_trade" /\ resp.status = 204
  /\ reqs.fault.trade_id = 1 /\ 1 \notin TradeIds
  /\ reqs.fault.rows = {1} /\ reqs.fault.keys = {gen_key("u1", 1, "b")}
  /\ {im.id : im \in images} = {1, 3}
  /\ gen_key("u1", 1, "b") \in objects

\* an image was deleted with 204 although its object delete failed
DeleteImageObjectLeft ==
  /\ resp.op = "delete_image" /\ resp.status = 204
  /\ reqs.fault.image_id = 2 /\ gen_key("u1", 1, "b") \in reqs.fault.keys
  /\ gen_key("u1", 1, "b") \in objects
  /\ \A im \in images : im.id # 2

\* C30: no step of delete_image or delete_trade deletes the object of an
\* image whose row remains in the store.
C30_NoRowOutlivesItsObject ==
  [][ \A im \in images' : im.s3_key \in objects => im.s3_key \in objects' ]_vars

\* the same for delete_image alone
DeleteImageKeepsOrder ==
  [][ resp'.op = "delete_image" =>
        \A im \in images' : im.s3_key \in objects => im.s3_key \in objects' ]_vars

(***************************************************************************)
(* SpecAnalyze: analyze_trade with the answer of the AI provider.  A       *)
(* provider response either raises or carries a text in output_text or in  *)
(* the first part of its first output block; a text is a JSON value,       *)
(* possibly inside a code fence.                                           *)
(***************************************************************************)
AnalysisKeys == {"what_happened", "why_result", "tips"}

JsonValues ==
  {[kind |-> "invalid", keys |-> {}], [kind |-> "list", keys |-> {}]}
    \cup {[kind |-> "object", keys |-> ks] : ks \in SUBSET AnalysisKeys}

\* fence "block": the JSON on lines of its own between ``` lines; fence
\* "inline": ``` before the JSON on one line
AiTexts ==
  {[fence |-> f, json |-> v] : f \in {"none", "block", "inline"}, v \in JsonValues}

EmptyText == [fence |-> "none", json |-> [kind |-> "empty", keys |-> {}]]

CompleteText == [fence |-> "none", json |-> [kind |-> "object", keys |-> AnalysisKeys]]

AiResponses ==
  {[raised |-> TRUE, output_text |-> None, part_text |-> None]}
    \cup {[raised |-> FALSE, output_text |-> Some(t), part_text |-> None] : t \in AiTexts}
    \cup {[raised |-> FALSE, output_text |-> o, part_text |-> q] :
            o \in {None, Some(EmptyText)},
            q \in {None, Some(EmptyText), Some(CompleteText),
                   Some([CompleteText EXCEPT !.json.keys = {"tips"}])}}

\* "not text"
NoText(text) == text = None \/ text = Some(EmptyText)

\* json.loads of the text after the fence was stripped: the value, or None
\* when it raises
loads_stripped(text) ==
  IF text.fence = "inline" \/ text.json.kind \in {"invalid", "empty"}
    THEN None
    ELSE Some(text.json)

\* mutant: missing keys are read as None
AnalysisResult_get(content) == [exc |-> "ok", keys |-> content.keys]

\* AnalysisResult(what_happened=content["what_happened"], ...)
AnalysisResult(content) ==
  IF content.kind # "object" THEN [exc |-> "TypeError", keys |-> {}]
  ELSE IF ~(AnalysisKeys \subseteq content.keys) THEN [exc |-> "KeyError", keys |-> {}]
  ELSE AnalysisResult_get(content)

run_trade_analysis(response) ==
  IF response.raised THEN [exc |-> "APIError", keys |-> {}]
  ELSE LET text == IF NoText(response.output_text)
                     THEN response.part_text
                     ELSE response.output_text
       IN IF NoText(text) \/ loads_stripped(Val(text)) = None
            THEN [exc |-> "RuntimeError", keys |-> {}]
            ELSE AnalysisResult(Val(loads_stripped(Val(text))))

\* POST /trades/{trade_id}/analyze with the provider's response
analyze_trade_parsed(Toks, Ids, ImageIds, Responses) ==
  \E tok \in Toks, trade_id \in Ids, image_id \in ImageIds, r \in Responses :
    /\ analyze_trade_step(tok, trade_id, image_id, run_trade_analysis(r).exc)
    /\ reqs' = [reqs EXCEPT !.ai =
         [trade_id |-> trade_id, image_id |-> image_id, response |-> r]]

AnalyzeImages ==
  {[id |-> 1, user_id |-> "u1", trade_id |-> 1, s3_key |-> gen_key("u1", 1, "a")],
   [id |-> 2, user_id |-> "u2", trade_id |-> 2, s3_key |-> gen_key("u2", 2, "a")]}

AnalyzeIds == {1, 2}

InitAnalyze ==
  /\ trades = CleanupTrades
  /\ nextId = 3
  /\ images = AnalyzeImages
  /\ objects \in SUBSET {im.s3_key : im \in images}
  /\ analyses = {}
  /\ clock = ClockStart
  /\ walk = IdleWalk
  /\ resp = NoResp
  /\ imp = NoImport
  /\ reqs = NoRequests

NextAnalyze == analyze_trade_parsed(OwnTokens, AnalyzeIds, AnalyzeIds, AiResponses)

SpecAnalyze == InitAnalyze /\ [][NextAnalyze]_vars

\* the JSON value the provider's response delivers, if any
Delivered(r) ==
  IF r.raised THEN None
  ELSE LET text == IF IsSome(r.output_text) /\ Val(r.output_text) # EmptyText
                     THEN r.output_text ELSE r.part_text
       IN IF text = None \/ Val(text).fence = "inline" THEN None
          ELSE IF Val(text).json.kind = "object" THEN Some(Val(text).json.keys)
          ELSE None

CompleteResult(r) == IsSome(Delivered(r)) /\ Val(Delivered(r)) = AnalysisKeys

\* the request that resp' answers got as far as the call of the provider
AnalysisReached ==
  /\ resp'.op = "analyze_trade"
  /\ IsSome(resp'.acting)
  /\ check_trade_belongs_to_user(reqs'.ai.trade_id, Val(resp'.acting)) = "ok"
  /\ LET img == get_image_for_trade(Val(resp'.acting), reqs'.ai.trade_id,
                                    reqs'.ai.image_id)
     IN img.exc = "ok" /\ Val(img.row).s3_key \in objects

\* C25: when the provider call fails, its response cannot be parsed, or the
\* parsed response lacks what_happened, why_result or tips, analyze_trade
\* answers with the analysis-failure error and inserts no trade_analysis
\* row; a row is inserted only after a complete result was obtained.
C25_NoRowWithoutCompleteResult ==
  [][ /\ (AnalysisReached /\ ~CompleteResult(reqs'.ai.response)) =>
           /\ resp'.status = 500
           /\ resp'.detail = "ai_analysis_failed"
           /\ analyses' = analyses
      /\ analyses' # analyses =>
           /\ resp'.op = "analyze_trade"
           /\ CompleteResult(reqs'.ai.response)
    ]_vars

\* the provider answered with a JSON object that has tips only: the request
\* failed and no row was stored
C25_Witness ==
  /\ resp.op = "analyze_trade"
  /\ resp.status = 500 /\ resp.detail = "ai_analysis_failed"
  /\ resp.acting = Some("u1") /\ reqs.ai.trade_id = 1 /\ reqs.ai.image_id = 1
  /\ Delivered(reqs.ai.response) = Some({"tips"})
  /\ analyses = {}

\* a complete result in a code fence was stored
AnalysisStored ==
  /\ resp.op = "analyze_trade" /\ resp.status = 200
  /\ IsSome(reqs.ai.response.output_text)
  /\ Val(reqs.ai.response.output_text).fence = "block"
  /\ analyses # {}

(***************************************************************************)
(* The counts of an import (SpecCsv).                                      *)
(***************************************************************************)
\* C26: for every import that passed account validation the returned counts
\* account for every row exactly once: insertedCount + failedCount +
\* skippedCount is the number of rows of the batch, and insertedCount is the
\* number of trades the import added to the store.
C26_CountsPartitionRows ==
  /\ imp.status \in {"running", "done"} =>
       /\ imp.inserted + imp.failed + imp.duplicates = imp.i - 1
       /\ imp.inserted = Cardinality(trades \ imp.before)
       /\ imp.before \subseteq trades
  /\ ImportReturned =>
       /\ Val(resp.data).insertedCount + Val(resp.data).failedCount
            + Val(resp.data).skippedCount = Len(imp.rows)
       /\ Val(resp.data).insertedCount = Cardinality(trades \ imp.before)

\* a batch of two rows returned with one row inserted and one that raised
C26_Witness ==
  /\ ImportReturned
  /\ Len(imp.rows) = 2
  /\ Val(resp.data) = CsvImportResult(1, 1, 0)
  /\ Cardinality(trades \ imp.before) = 1

\* a batch returned with a skipped row and nothing inserted
ImportAllSkipped ==
  /\ ImportReturned
  /\ Val(resp.data).skippedCount = Len(imp.rows)
  /\ trades = imp.before

\* C28: a row is counted as skipped only if a trade with the same data exists
\* after the import: every row skipped as an in-file duplicate has an earlier
\* row of the same dedupe key that was inserted or was itself skipped as a
\* store duplicate, never one that was counted as failed.
C28_SkippedRowHasStoredTwin ==
  \A k \in DOMAIN imp.outcomes :
    imp.outcomes[k] = "file_duplicate" =>
      /\ \E j \in 1..(k - 1) :
           /\ dedupe_key(imp.rows[j]) = dedupe_key(imp.rows[k])
           /\ imp.outcomes[j] \in {"inserted", "store_duplicate"}
      /\ \A j \in 1..(k - 1) :
           dedupe_key(imp.rows[j]) = dedupe_key(imp.rows[k])
             => imp.outcomes[j] # "failed"

\* every row skipped as an in-file duplicate has an earlier row of its key
SkippedRowHasEarlierTwin ==
  \A k \in DOMAIN imp.outcomes :
    imp.outcomes[k] = "file_duplicate" =>
      \E j \in 1..(k - 1) :
        /\ dedupe_key(imp.rows[j]) = dedupe_key(imp.rows[k])
        /\ imp.outcomes[j] # "file_duplicate"

\* a row was skipped although the import stored no trade and found none
SkippedWithNothingStored ==
  /\ ImportReturned
  /\ Val(resp.data).skippedCount = 1 /\ Val(resp.data).failedCount = 1
  /\ trades = {}

(***************************************************************************)
(* SpecLabel: the three requests that write taken_at and session, with     *)
(* entry times in every session, in winter and in summer time, aware and   *)
(* naive, given and defaulted to the clock.                                *)
(***************************************************************************)
\* created with no entry time, or with a naive one at 01:00 in Los Angeles
LabelCreateBodies ==
  {BlankBody,
   [BlankBody EXCEPT !.takenAt = Some([t |-> 1 * Day + 9 * Hour, aware |-> FALSE])]}

\* updated without an entry time, or with one at 15:00 in winter, or at
\* 13:00 in summer time
LabelUpdateBodies ==
  {[BlankBody EXCEPT !.note = Some("x")],
   [BlankBody EXCEPT !.takenAt = Some([t |-> 1 * Day + 23 * Hour, aware |-> TRUE])],
   [BlankBody EXCEPT !.takenAt = Some([t |-> 200 * Day + 20 * Hour, aware |-> TRUE])]}

\* a row with an entry time and a row without one
LabelBatches == {<<BaseRow, [BaseRow EXCEPT !.entry_time = None]>>}

LabelIds == {1}

LabelTokens == {[sub |-> "u1", valid |-> TRUE]}

InitLabel ==
  /\ trades = {}
  /\ nextId = 1
  /\ InitRest

NextLabel ==
  \/ create_trade(LabelTokens, LabelCreateBodies, {TRUE})
  \/ update_trade(LabelTokens, LabelIds, LabelUpdateBodies)
  \/ import_trades_csv_begin(LabelTokens, LabelBatches, NoAccount)
  \/ import_trades_csv_row({TRUE}, {1})
  \/ import_trades_csv_return

SpecLabel == InitLabel /\ [][NextLabel]_vars

SessionOf(taken_at) == infer_session_from_entry([t |-> taken_at, aware |-> TRUE])

\* C27: every stored trade that has a session label has the label that
\* infer_session_from_entry gives for its stored taken_at, after any sequence
\* of create_trade, update_trade and import_trades_csv requests; no request
\* changes the session of a trade whose taken_at it leaves as it was.
C27_SessionFollowsTakenAt ==
  /\ [](\A t \in trades :
          IsSome(t.session) =>
            IsSome(t.taken_at) /\ Val(t.session) = SessionOf(Val(t.taken_at)))
  /\ [][ \A t \in trades, u \in trades' :
           (t.id = u.id /\ t.taken_at = u.taken_at) => t.session = u.session ]_vars

\* update_trade moved the entry time of trade 1 to 15:00 in Los Angeles, a
\* time no create or import of this specification writes, and the stored
\* label followed
C27_Witness ==
  /\ resp.op = "update_trade" /\ resp.status = 200
  /\ \E t \in trades :
       /\ t.id = 1 /\ t.taken_at = Some(1 * Day + 23 * Hour)
       /\ t.session = Some("Asia")
  /\ SessionOf(ClockStart) = "NY"

\* every session label occurs in the store
LabelsStored(label) == \E t \in trades : t.session = Some(label)

AsiaStored == LabelsStored("Asia")

LondonStored == LabelsStored("London")

BreakStored == LabelsStored("Break")

(***************************************************************************)
(* SpecImportRace: two import_trades_csv requests, each with a batch of    *)
(* one row, served by two workers against the one store.  The store is     *)
(* consulted and written in separate calls, and the calls of the two       *)
(* requests interleave.                                                    *)
(***************************************************************************)
ImportSlots == {"a", "b"}

RaceRows == {BaseRow, [BaseRow EXCEPT !.entry_time = Some(OffsetTime)]}

RaceTokens == {[sub |-> "u1", valid |-> TRUE], [sub |-> "u2", valid |-> TRUE]}

\* the request arrives and is authenticated
import_race_begin(Slots, Toks, Rows) ==
  /\ \E s \in Slots, tok \in Toks, row \in Rows :
       /\ reqs.race[s].pc = "idle"
       /\ IsSome(verify_supabase_token(tok))
       /\ reqs' = [reqs EXCEPT !.race[s] =
            [pc |-> "check", creds |-> Creds(tok, None),
             user_id |-> Val(verify_supabase_token(tok)), row |-> Some(row),
             outcome |-> "none"]]
  /\ UNCHANGED <<storeVars, clock, walk, resp, imp>>

\* the row up to and including trade_exists_for_user
import_race_check ==
  /\ \E s \in ImportSlots :
       LET r == reqs.race[s]
           row == Val(r.row)
           entry == _parse_csv_timestamp(row.entry_time)
           exit == _parse_csv_timestamp(row.exit_time)
           taken_at == IF IsSome(entry.dt) THEN Val(entry.dt) ELSE Now
       IN /\ r.pc = "check"
          /\ reqs' = [reqs EXCEPT !.race[s] =
               IF entry.exc # "ok" \/ exit.exc # "ok"
                 THEN [r EXCEPT !.pc = "done", !.outcome = "failed"]
               ELSE IF trade_exists_for_user(r.user_id, Strip(row.symbol), row.side,
                                             row.pnl, taken_at, exit.dt,
                                             row.entry_price, row.exit_price,
                                             row.contracts)
                 THEN [r EXCEPT !.pc = "done", !.outcome = "store_duplicate"]
               ELSE [r EXCEPT !.pc = "insert"]]
  /\ UNCHANGED <<storeVars, clock, walk, resp, imp>>

\* the rest of the row: infer_session_from_entry and insert_trade
import_race_insert(Stored) ==
  /\ \E s \in ImportSlots, stored \in Stored :
       LET r == reqs.race[s]
           row == Val(r.row)
           entry == _parse_csv_timestamp(row.entry_time)
           exit == _parse_csv_timestamp(row.exit_time)
           taken_at == IF IsSome(entry.dt) THEN Val(entry.dt) ELSE Now
           outcome == IF row.pnl > 0 THEN "win"
                      ELSE IF row.pnl < 0 THEN "loss" ELSE "breakeven"
           inferred == infer_session_from_entry(taken_at)
           session == IF inferred = "ValueError" THEN None ELSE Some(inferred)
           new == insert_trade(nextId, 1, r.user_id, "", taken_at, exit.dt,
                               Some(outcome), None, session, Some(row.side),
                               row.entry_price, row.exit_price, row.contracts,
                               Some(row.pnl), Some(Strip(row.symbol)), None)
       IN /\ r.pc = "insert"
          /\ IF stored
               THEN /\ trades' = trades \cup {new}
                    /\ nextId' = nextId + 1
                    /\ reqs' = [reqs EXCEPT !.race[s] =
                         [r EXCEPT !.pc = "done", !.outcome = "inserted"]]
               ELSE /\ reqs' = [reqs EXCEPT !.race[s] =
                         [r EXCEPT !.pc = "done", !.outcome = "failed"]]
                    /\ UNCHANGED <<trades, nextId>>
  /\ UNCHANGED <<images, analyses, objects, clock, walk, resp, imp>>

\* the loop has ended: the counts are returned
import_race_return ==
  /\ \E s \in ImportSlots :
       LET r == reqs.race[s]
           n(kind) == IF r.outcome = kind THEN 1 ELSE 0
       IN /\ r.pc = "done"
          /\ reqs' = [reqs EXCEPT !.race[s].pc = "returned"]
          /\ resp' = Response("import_trades_csv", r.creds, Some(r.user_id), None,
                              200, "",
                              Some(CsvImportResult(n("inserted"), n("failed"),
                                                   n("store_duplicate"))))
  /\ UNCHANGED <<storeVars, clock, walk, imp>>

InitImportRace ==
  /\ trades = {}
  /\ nextId = 1
  /\ InitRest

NextImportRace ==
  \/ import_race_begin(ImportSlots, RaceTokens, RaceRows)
  \/ import_race_check
  \/ import_race_insert(BOOLEAN)
  \/ import_race_return

SpecImportRace == InitImportRace /\ [][NextImportRace]_vars

\* two stored trades of one owner with the same data
SameTrade(t, u) ==
  /\ t.user_id = u.user_id /\ t.symbol = u.symbol /\ t.side = u.side
  /\ t.pnl = u.pnl /\ t.taken_at = u.taken_at /\ t.exit_at = u.exit_at
  /\ t.entry_price = u.entry_price /\ t.exit_price = u.exit_price
  /\ t.contracts = u.contracts

\* C29: when two imports of one owner whose batches contain the same row run
\* concurrently, at most one trade is stored for that row under every
\* interleaving of their store-duplicate checks and inserts.
C29_OneTradePerRow ==
  \A t, u \in trades : SameTrade(t, u) => t.id = u.id

\* a check lets the row through to the insert only when, at the time of the
\* check, the store holds no trade of the owner with the row's entry time
CheckSeesNoTwin ==
  [][ \A s \in ImportSlots :
        (reqs.race[s].pc = "check" /\ reqs'.race[s].pc = "insert") =>
          ~\E t \in trades :
             /\ t.user_id = reqs.race[s].user_id
             /\ t.taken_at =
                  Some(Val(_parse_csv_timestamp(Val(reqs.race[s].row).entry_time).dt).t)
    ]_vars

\* both imports answered insertedCount = 1 for the same row of the same owner
BothImportsInserted ==
  /\ \A s \in ImportSlots :
       reqs.race[s].pc = "returned" /\ reqs.race[s].outcome = "inserted"
  /\ reqs.race.a.user_id = reqs.race.b.user_id
  /\ reqs.race.a.row = reqs.race.b.row

====
